---------------------------- MODULE Spec2Model ----------------------------
(***************************************************************************)
(* Quest Playwright service: the citation validator, the deployment        *)
(* verifier, the screenshot service and the batch entry point, as state    *)
(* machines over one shared browser.                                       *)
(*                                                                         *)
(* Every service call runs in a slot r.  One action is one resumption of   *)
(* the async function: the awaited call settles (resolved or rejected) and *)
(* the synchronous code that follows runs up to the next await.            *)
(*                                                                         *)
(* Not modelled: validation_timestamp, response_time_ms and timestamp      *)
(* (clock readings no property reads), and logger calls.                   *)
(***************************************************************************)
EXTENDS Integers, Sequences, FiniteSets, TLC

\* Bounds of the model.
NumReq == 2      \* slots: service calls that can be in flight together
MaxBatch == 2    \* citations in one batchValidate call
MaxChecks == 2   \* checks in one verify request

Reqs == 1..NumReq
PageIds == 1..NumReq

\* JavaScript's undefined and null.
Undefined == "undefined"
Null == "null"

\* No page: the initial value of the local `page`.
NoPage == 0

VARIABLES
    call,       \* call[r]: the request object the slot's call was given
    site,       \* site[r]: what the target of call[r].url serves to this call
    pc,         \* pc[r]: the await the call is suspended at
    page,       \* page[r]: the local variable `page`
    local,      \* local[r]: the other local variables of the call
    completion, \* completion[r]: how the try/catch ended, kept while finally runs
    outcome,    \* outcome[r]: how the call's promise settled
    log,        \* log[r]: the browser and upload calls the call has made, in order
    rejected,   \* rejected[r]: the awaited calls of the call that rejected
    pages,      \* pages[p]: the browser's page p
    batch,      \* the batchValidate call
    completed,  \* the batch members whose promise has settled, in settling order
    http,       \* http[h]: the HTTP request handler h is serving, and its response
    browser,    \* the module variable `browser` of the server: null or the Browser
    process     \* the Node process: starting, listening or exited, and its shutdown

vars == <<call, site, pc, page, local, completion, outcome, log, rejected, pages, batch, completed, http,
          browser, process>>

----------------------------------------------------------------------------
(* Values *)

\* Truthiness of a value that is a string, undefined or null.
Truthy(v) == v \notin {Undefined, Null, ""}

\* `a || b` on such values.
OrElse(a, b) == IF Truthy(a) THEN a ELSE b

\* text_found is boolean | null.
True == "true"
False == "false"

Urls == {"https://a.test", "https://b.test"}

\* The message of the error an awaited call rejects with, by the call.
ErrorMessage(step) ==
    CASE step = "newPage" -> "browser.newPage: failed"
      [] step = "goto" -> "page.goto: net::ERR_NAME_NOT_RESOLVED"
      [] step = "title" -> "page.title: execution context destroyed"
      [] step = "detectCaptcha" -> "locator.count: target crashed (captcha)"
      [] step = "detectPaywall" -> "locator.count: target crashed (paywall)"
      [] step = "findExpectedText" -> "locator.count: invalid regular expression"
      [] step = "screenshot" -> "page.screenshot: failed"
      [] step = "cloudinary" -> "cloudinary: request failed"
      [] step = "setViewportSize" -> "page.setViewportSize: failed"
      [] step = "evaluate" -> "page.evaluate: failed"
      [] step = "close" -> "page.close: failed"

NoCompletion == [kind |-> "none"]
Return(v) == [kind |-> "return", value |-> v]
Throw(m) == [kind |-> "throw", error |-> m]

----------------------------------------------------------------------------
(* The shared browser *)

\* A viewport; the one validate and verify open their page with.
Viewport(w, h) == [width |-> w, height |-> h]
DefaultViewport == Viewport(1920, 1080)

FreshPage == [state |-> "none", owner |-> 0, users |-> {}, closes |-> 0, viewport |-> DefaultViewport]

\* newPage answering with one shared page.
NewPageIdShared(pgs, r) == 1

\* browser.newPage(): a new page for every call, named here after the slot whose
\* call created it (a slot calls newPage once).
NewPageId(pgs, r) == r

\* The page operations record which slot used the page.
UsePage(pgs, p, r) == [pgs EXCEPT ![p].users = @ \cup {r}]

OpenPage(pgs, p, r, vp) ==
    [pgs EXCEPT ![p] = [state |-> "open", owner |-> r, users |-> {}, closes |-> 0, viewport |-> vp]]

\* page.close(): the handle is released whether the returned promise resolves or not.
ClosePage(pgs, p, r) ==
    [pgs EXCEPT ![p] = [@ EXCEPT !.state = "closed", !.users = @ \cup {r}, !.closes = @ + 1]]

----------------------------------------------------------------------------
(* uploadToCloudinary *)

\* result.secure_url of an upload into quest-platform/<folder>.
SecureUrl(folder) ==
    CASE folder = "citations" -> "https://res.cloudinary.com/quest-platform/citations/image.png"
      [] folder = "deployments" -> "https://res.cloudinary.com/quest-platform/deployments/image.png"
      [] folder = "visual-regression" -> "https://res.cloudinary.com/quest-platform/visual-regression/image.png"
      [] folder = "screenshots" -> "https://res.cloudinary.com/quest-platform/screenshots/image.png"

\* The error uploadToCloudinary throws when the upload rejects.
UploadError == "Failed to upload to Cloudinary: cloudinary: request failed"

----------------------------------------------------------------------------
(* CitationValidator *)

captchaIndicators == <<"recaptcha", "captcha", "hcaptcha", "robot verification", "verify you are human">>

paywallIndicators == <<"subscribe", "subscription", "paywall", "premium content", "member exclusive",
                       "sign in to continue", "register to read", "become a member",
                       "unlock this article">>

\* frame.url().includes(s), on the URLs the model's sites use.
UrlIncludes(url, s) ==
    CASE url = "https://www.google.com/recaptcha/api2/anchor" -> s \in {"recaptcha", "captcha"}
      [] url = "https://hcaptcha.example/captcha/v1" -> s = "captcha"
      [] OTHER -> FALSE

\* detectCaptcha when no locator call rejects.
  \* site.text: the phrases the rendered text matches (case-insensitively)
  \* site.frames: the URLs of page.frames()
RECURSIVE CaptchaTextFrom(_, _)
CaptchaTextFrom(s, i) ==
    IF i > Len(captchaIndicators) THEN FALSE
    ELSE IF captchaIndicators[i] \in s.text THEN TRUE
    ELSE CaptchaTextFrom(s, i + 1)

RECURSIVE CaptchaFrameFrom(_, _)
CaptchaFrameFrom(s, i) ==
    IF i > Len(s.frames) THEN FALSE
    ELSE IF UrlIncludes(s.frames[i], "recaptcha") \/ UrlIncludes(s.frames[i], "captcha") THEN TRUE
    ELSE CaptchaFrameFrom(s, i + 1)

detectCaptcha(s) == IF CaptchaTextFrom(s, 1) THEN TRUE ELSE CaptchaFrameFrom(s, 1)

\* detectPaywall when no locator call rejects.
  \* site.elementText: textContent() of the first element matching a phrase
RECURSIVE PaywallFrom(_, _)
PaywallFrom(s, i) ==
    IF i > Len(paywallIndicators) THEN [detected |-> FALSE, text |-> Undefined]
    ELSE IF paywallIndicators[i] \in s.text
         THEN [detected |-> TRUE, text |-> OrElse(s.elementText, paywallIndicators[i])]
         ELSE PaywallFrom(s, i + 1)

\* A paywall probe that goes through the whole list and answers with the last
\* phrase that matched.
detectPaywallLastMatch(s) ==
    LET hits == {i \in 1..Len(paywallIndicators) : paywallIndicators[i] \in s.text}
        last == CHOOSE i \in hits : \A j \in hits : j <= i
    IN IF hits = {} THEN [detected |-> FALSE, text |-> Undefined]
       ELSE [detected |-> TRUE, text |-> OrElse(s.elementText, paywallIndicators[last])]

detectPaywall(s) == PaywallFrom(s, 1)

\* A text probe whose catch answers with what the page holds.
findExpectedTextDespiteFault(s, faulted) ==
    IF s.exact THEN [found |-> True, location |-> "exact match"]
    ELSE IF s.partial THEN [found |-> True, location |-> "partial match (case-insensitive)"]
    ELSE IF s.html THEN [found |-> True, location |-> "found in HTML content"]
    ELSE [found |-> False, location |-> Undefined]

\* findExpectedText: the three tiers, and the catch that answers found: false.
  \* site.exact: text="expectedText" matches an element
  \* site.partial: text=/expectedText/i matches an element
  \* site.html: page.content(), lowercased, includes the lowercased expected text
findExpectedText(s, faulted) ==
    IF faulted THEN [found |-> False, location |-> Undefined]
    ELSE IF s.exact THEN [found |-> True, location |-> "exact match"]
    ELSE IF s.partial THEN [found |-> True, location |-> "partial match (case-insensitive)"]
    ELSE IF s.html THEN [found |-> True, location |-> "found in HTML content"]
    ELSE [found |-> False, location |-> Undefined]

\* const httpStatus = response?.status() || 0
  \* response: <<>> for a null response, <<status>> otherwise
HttpStatus(response) == IF response = <<>> THEN 0 ELSE response[1]

\* The final resolution with the text test ahead of the paywall test.
FinalStatusTextFirst(req, paywallDetected, textFound) ==
    IF Truthy(req.expectedText) /\ textFound # True THEN "text_not_found"
    ELSE IF paywallDetected THEN "paywall"
    ELSE "valid"

\* The final resolution without the text test.
FinalStatusIgnoresText(req, paywallDetected, textFound) ==
    IF paywallDetected THEN "paywall" ELSE "valid"

\* The final resolution testing !textFound alone, whether or not a text was asked for.
FinalStatusUnaskedText(req, paywallDetected, textFound) ==
    IF paywallDetected THEN "paywall"
    ELSE IF textFound # True THEN "text_not_found"
    ELSE "valid"

\* The status validate resolves (lines 128-134).
FinalStatus(req, paywallDetected, textFound) ==
    IF paywallDetected THEN "paywall"
    ELSE IF Truthy(req.expectedText) /\ textFound # True THEN "text_not_found"
    ELSE "valid"

NotFoundResult(req, l) ==
    [url |-> req.url, status |-> "not_found", http_status |-> l.httpStatus,
     text_found |-> Null, text_location |-> Undefined,
     paywall_detected |-> FALSE, paywall_text |-> Undefined,
     captcha_detected |-> FALSE, screenshot_url |-> Undefined,
     page_title |-> l.pageTitle, error_message |-> Undefined]

CaptchaResult(req, l) ==
    [url |-> req.url, status |-> "captcha", http_status |-> l.httpStatus,
     text_found |-> Null, text_location |-> Undefined,
     paywall_detected |-> FALSE, paywall_text |-> Undefined,
     captcha_detected |-> TRUE, screenshot_url |-> Undefined,
     page_title |-> l.pageTitle, error_message |-> Undefined]

FinalResult(req, l) ==
    [url |-> req.url, status |-> FinalStatus(req, l.paywallDetected, l.textFound),
     http_status |-> l.httpStatus,
     text_found |-> l.textFound, text_location |-> l.textLocation,
     paywall_detected |-> l.paywallDetected, paywall_text |-> l.paywallText,
     captcha_detected |-> FALSE, screenshot_url |-> l.screenshotUrl,
     page_title |-> l.pageTitle, error_message |-> Undefined]

\* A catch block that leaves the message out of its result.
ErrorResultWithoutMessage(req, msg) ==
    [url |-> req.url, status |-> "error", http_status |-> 0,
     text_found |-> Null, text_location |-> Undefined,
     paywall_detected |-> FALSE, paywall_text |-> Undefined,
     captcha_detected |-> FALSE, screenshot_url |-> Undefined,
     page_title |-> Undefined, error_message |-> Undefined]

ErrorResult(req, msg) ==
    [url |-> req.url, status |-> "error", http_status |-> 0,
     text_found |-> Null, text_location |-> Undefined,
     paywall_detected |-> FALSE, paywall_text |-> Undefined,
     captcha_detected |-> FALSE, screenshot_url |-> Undefined,
     page_title |-> Undefined, error_message |-> msg]

\* A catch block that rethrows, as verify's and capture's do.
ValidateCatchRethrow(req, msg) == Throw(msg)

\* validate's catch block: every error thrown in the try becomes a result.
ValidateCatch(req, msg) == Return(ErrorResult(req, msg))

\* The locals of validate before they are assigned (httpStatus and pageTitle are
\* declared only at lines 63-64; the model holds 0 and undefined until then).
ValidateLocals ==
    [httpStatus |-> 0, pageTitle |-> Undefined,
     paywallDetected |-> FALSE, paywallText |-> Undefined,
     textFound |-> Null, textLocation |-> Undefined,
     screenshotUrl |-> Undefined]


\* Where the synchronous code after an await leaves the call: suspended at the
\* next await (with the locals as assigned so far), or out of the try block.
Await(step, l) == [next |-> step, locals |-> l, completion |-> NoCompletion]
Leave(c, l) == [next |-> "finally", locals |-> l, completion |-> c]

\* Lines 118-149, from the screenshot step on.
FromScreenshot(req, l) ==
    IF req.takeScreenshot THEN Await("screenshot", l)
    ELSE Leave(Return(FinalResult(req, l)), l)

\* Lines 108-116.
FromExpectedText(req, l) ==
    IF Truthy(req.expectedText) THEN Await("findExpectedText", l)
    ELSE FromScreenshot(req, l)

\* validate probing for a paywall whether or not the request asks for it.
FromPaywallUnasked(req, l) == Await("detectPaywall", l)

\* Lines 98-106.
FromPaywall(req, l) ==
    IF req.checkPaywall THEN Await("detectPaywall", l)
    ELSE FromExpectedText(req, l)

\* validate without the HTTP status check.
AfterTitleUnchecked(req, l) == Await("detectCaptcha", l)

\* Lines 63-82: the title has been read; the status check comes before any probe.
AfterTitle(req, l) ==
    IF l.httpStatus >= 400 THEN Leave(Return(NotFoundResult(req, l)), l)
    ELSE Await("detectCaptcha", l)

\* validate going on to the paywall probe whatever the CAPTCHA probe answered.
AfterCaptchaIgnored(req, l, captchaDetected) == FromPaywall(req, l)

\* validate taking the requested screenshot of a CAPTCHA page before it returns.
AfterCaptchaScreenshots(req, l, captchaDetected) ==
    IF captchaDetected
    THEN IF req.takeScreenshot THEN Await("screenshot", l)
         ELSE Leave(Return(CaptchaResult(req, l)), l)
    ELSE FromPaywall(req, l)

\* Lines 82-96.
AfterCaptcha(req, l, captchaDetected) ==
    IF captchaDetected THEN Leave(Return(CaptchaResult(req, l)), l)
    ELSE FromPaywall(req, l)

\* validate returning as soon as the paywall probe is positive.
AfterPaywallShortCircuits(req, l, paywallResult) ==
    LET l2 == [l EXCEPT !.paywallDetected = paywallResult.detected,
                        !.paywallText = paywallResult.text]
    IN IF paywallResult.detected THEN Leave(Return(FinalResult(req, l2)), l2)
       ELSE FromExpectedText(req, l2)

\* Lines 103-106.
AfterPaywall(req, l, paywallResult) ==
    FromExpectedText(req, [l EXCEPT !.paywallDetected = paywallResult.detected,
                                    !.paywallText = paywallResult.text])

\* validate running the paywall probe after the text probe.
AfterExpectedTextThenPaywall(req, l, textResult) ==
    IF req.checkPaywall
    THEN Await("detectPaywall", [l EXCEPT !.textFound = textResult.found,
                                          !.textLocation = textResult.location])
    ELSE FromScreenshot(req, [l EXCEPT !.textFound = textResult.found,
                                       !.textLocation = textResult.location])

\* Lines 113-116.
AfterExpectedText(req, l, textResult) ==
    FromScreenshot(req, [l EXCEPT !.textFound = textResult.found,
                                  !.textLocation = textResult.location])

\* Lines 125-149.
AfterUpload(req, l, url) ==
    LET l2 == [l EXCEPT !.screenshotUrl = url]
    IN Leave(Return(FinalResult(req, l2)), l2)

----------------------------------------------------------------------------
(* One resumption of a call *)

\* The awaited calls that are not calls on the page.
OffPageSteps == {"cloudinary", "compareImages"}

\* The slot's promise settles; Promise.all sees its members settle in order.
Settle(r, c) ==
    /\ outcome' = [outcome EXCEPT ![r] = c]
    /\ completed' = IF batch.state = "running" /\ r \in 1..Len(batch.citations)
                    THEN Append(completed, r) ELSE completed

\* Continue with page.close() as the last statement of the try block instead
\* of a finally block: a fault leaves the page open.
ContinueCloseInTry(r, to, pg, pgs) ==
    /\ local' = [local EXCEPT ![r] = to.locals]
    /\ page' = [page EXCEPT ![r] = pg]
    /\ IF to.next # "finally"
       THEN /\ pc' = [pc EXCEPT ![r] = to.next]
            /\ log' = [log EXCEPT ![r] = Append(@, to.next)]
            /\ pages' = IF to.next \in OffPageSteps THEN pgs ELSE UsePage(pgs, pg, r)
            /\ UNCHANGED <<completion, outcome, completed>>
       ELSE IF pg # NoPage /\ to.completion.kind = "return"
       THEN /\ pc' = [pc EXCEPT ![r] = "close"]
            /\ log' = [log EXCEPT ![r] = Append(@, "close")]
            /\ pages' = UsePage(pgs, pg, r)
            /\ completion' = [completion EXCEPT ![r] = to.completion]
            /\ UNCHANGED <<outcome, completed>>
       ELSE /\ pc' = [pc EXCEPT ![r] = "done"]
            /\ Settle(r, to.completion)
            /\ UNCHANGED <<log, completion>>
            /\ pages' = pgs

\* The call continues as `to` says.  Leaving the try block runs finally: with a
\* page, page.close() is called and awaited; without one the promise settles.
Continue(r, to, pg, pgs) ==
    /\ local' = [local EXCEPT ![r] = to.locals]
    /\ page' = [page EXCEPT ![r] = pg]
    /\ IF to.next # "finally"
       THEN /\ pc' = [pc EXCEPT ![r] = to.next]
            /\ log' = [log EXCEPT ![r] = Append(@, to.next)]
            /\ pages' = IF to.next \in OffPageSteps THEN pgs ELSE UsePage(pgs, pg, r)
            /\ UNCHANGED <<completion, outcome, completed>>
       ELSE IF pg # NoPage
       THEN /\ pc' = [pc EXCEPT ![r] = "close"]
            /\ log' = [log EXCEPT ![r] = Append(@, "close")]
            /\ pages' = UsePage(pgs, pg, r)
            /\ completion' = [completion EXCEPT ![r] = to.completion]
            /\ UNCHANGED <<outcome, completed>>
       ELSE /\ pc' = [pc EXCEPT ![r] = "done"]
            /\ Settle(r, to.completion)
            /\ UNCHANGED <<log, completion>>
            /\ pages' = pgs

\* The awaited call resolved and the call continues as `to` says.
Resolve(r, to, pg, pgs) ==
    /\ Continue(r, to, pg, pgs)
    /\ UNCHANGED rejected

\* The awaited call `step` rejected; the enclosing catch completes the try
\* block with c.
Reject(r, step, c) ==
    /\ Continue(r, Leave(c, local[r]), page[r], pages)
    /\ rejected' = [rejected EXCEPT ![r] = @ \cup {step}]

\* (newPage) browser.newPage settles: lines 50-61.
ValidateNewPage(r) ==
    /\ pc[r] = "newPage" /\ call[r].op = "validate"
    /\ \/ LET p == NewPageId(pages, r)
          IN Resolve(r, Await("goto", local[r]), p, OpenPage(pages, p, r, DefaultViewport))
       \/ Reject(r, "newPage", ValidateCatch(call[r], ErrorMessage("newPage")))
    /\ UNCHANGED <<call, site, batch, http, browser, process>>

\* (goto) page.goto settles: lines 58-64.
ValidateGoto(r) ==
    /\ pc[r] = "goto" /\ call[r].op = "validate"
    /\ \/ Resolve(r, Await("title", [local[r] EXCEPT !.httpStatus = HttpStatus(site[r].response)]),
                   page[r], pages)
       \/ Reject(r, "goto", ValidateCatch(call[r], ErrorMessage("goto")))
    /\ UNCHANGED <<call, site, batch, http, browser, process>>

\* (title) page.title settles: lines 64-82.
ValidateTitle(r) ==
    /\ pc[r] = "title"
    /\ \/ Resolve(r, AfterTitle(call[r], [local[r] EXCEPT !.pageTitle = site[r].title]), page[r], pages)
       \/ Reject(r, "title", ValidateCatch(call[r], ErrorMessage("title")))
    /\ UNCHANGED <<call, site, batch, http, browser, process>>

\* (detectCaptcha) the CAPTCHA probe settles: lines 82-106.
ValidateDetectCaptcha(r) ==
    /\ pc[r] = "detectCaptcha"
    /\ \/ Resolve(r, AfterCaptcha(call[r], local[r], detectCaptcha(site[r])), page[r], pages)
       \/ Reject(r, "detectCaptcha", ValidateCatch(call[r], ErrorMessage("detectCaptcha")))
    /\ UNCHANGED <<call, site, batch, http, browser, process>>

\* (detectPaywall) the paywall probe settles: lines 103-116.
ValidateDetectPaywall(r) ==
    /\ pc[r] = "detectPaywall"
    /\ \/ Resolve(r, AfterPaywall(call[r], local[r], detectPaywall(site[r])), page[r], pages)
       \/ Reject(r, "detectPaywall", ValidateCatch(call[r], ErrorMessage("detectPaywall")))
    /\ UNCHANGED <<call, site, batch, http, browser, process>>

\* (findExpectedText) the text probe settles; it resolves even when a locator
\* call inside it rejected: lines 113-126.
ValidateFindExpectedText(r) ==
    /\ pc[r] = "findExpectedText"
    /\ \E faulted \in BOOLEAN :
          /\ Continue(r, AfterExpectedText(call[r], local[r], findExpectedText(site[r], faulted)),
                      page[r], pages)
          /\ rejected' = IF faulted THEN [rejected EXCEPT ![r] = @ \cup {"findExpectedText"}]
                          ELSE rejected
    /\ UNCHANGED <<call, site, batch, http, browser, process>>

\* (screenshot) page.screenshot settles: lines 121-125.
ValidateScreenshot(r) ==
    /\ pc[r] = "screenshot" /\ call[r].op = "validate"
    /\ \/ Resolve(r, Await("cloudinary", local[r]), page[r], pages)
       \/ Reject(r, "screenshot", ValidateCatch(call[r], ErrorMessage("screenshot")))
    /\ UNCHANGED <<call, site, batch, http, browser, process>>

\* (cloudinary) the upload inside uploadToCloudinary settles: lines 125-149.
ValidateUpload(r) ==
    /\ pc[r] = "cloudinary" /\ call[r].op = "validate"
    /\ \/ Resolve(r, AfterUpload(call[r], local[r], SecureUrl("citations")), page[r], pages)
       \/ Reject(r, "cloudinary", ValidateCatch(call[r], UploadError))
    /\ UNCHANGED <<call, site, batch, http, browser, process>>

\* (close) page.close() in the finally block settles: the call completes as the
\* try/catch left it, unless close rejected, which replaces that completion.
Close(r) ==
    /\ pc[r] = "close"
    /\ pc' = [pc EXCEPT ![r] = "done"]
    /\ pages' = ClosePage(pages, page[r], r)
    /\ \/ Settle(r, completion[r]) /\ UNCHANGED rejected
       \/ /\ Settle(r, Throw(ErrorMessage("close")))
          /\ rejected' = [rejected EXCEPT ![r] = @ \cup {"close"}]
    /\ UNCHANGED <<call, site, page, local, completion, log, batch, http, browser, process>>

----------------------------------------------------------------------------
(* DeploymentVerifier *)

\* Optional numbers and records are <<>> when absent and <<v>> when present.
Absent == <<>>
Present(v) == <<v>>

\* `n || d` on an optional number: undefined and 0 are both falsy.
NumberOrElse(n, d) == IF n = Absent \/ n[1] = 0 THEN d ELSE n[1]

RECURSIVE SumShifts(_, _)
SumShifts(entries, i) ==
    IF i > Len(entries) THEN 0
    ELSE (IF entries[i].hadRecentInput THEN 0 ELSE entries[i].value) + SumShifts(entries, i + 1)

CheckResult(type, passed, message) ==
    [type |-> type, passed |-> passed, message |-> message,
     screenshot_url |-> Undefined, computed_styles |-> Undefined,
     images_found |-> Absent, failed_images |-> Absent,
     cumulative_layout_shift |-> Absent, load_time |-> Absent]

\* getPerformanceMetrics (lines 349-365); times in ms, whole numbers.
getPerformanceMetrics(s, fault) ==
    IF fault = "evaluate" THEN Throw(ErrorMessage("evaluate"))
    ELSE Return([load_time |-> 0,
                 dom_content_loaded |-> s.domContentLoaded,
                 first_contentful_paint |-> NumberOrElse(s.firstContentfulPaint, 0)])

\* checkScreenshot (lines 183-201).
checkScreenshot(check, fault) ==
    IF check.viewport # Absent /\ fault = "setViewportSize" THEN Throw(ErrorMessage("setViewportSize"))
    ELSE IF fault = "screenshot" THEN Throw(ErrorMessage("screenshot"))
    ELSE IF fault = "cloudinary" THEN Throw(UploadError)
    ELSE Return([CheckResult("screenshot", TRUE, "Screenshot captured")
                    EXCEPT !.screenshot_url = SecureUrl("deployments")])

\* The viewport of the page after checkScreenshot.
ViewportAfterScreenshot(check, fault, vp) ==
    IF check.viewport # Absent /\ fault # "setViewportSize" THEN check.viewport[1] ELSE vp

\* checkCssLoaded (lines 203-242).
checkCssLoaded(check, s, fault) ==
    IF ~Truthy(check.selector)
    THEN Return(CheckResult("css_loaded", FALSE, "Selector is required for CSS check"))
    ELSE IF fault = "count" THEN Throw("locator.count: failed")
    ELSE IF check.selector \notin s.selectors
    THEN Return(CheckResult("css_loaded", FALSE, "Element not found"))
    ELSE IF fault = "evaluate" THEN Throw(ErrorMessage("evaluate"))
    ELSE Return([CheckResult("css_loaded", TRUE, "CSS loaded")
                    EXCEPT !.computed_styles = "styles"])

\* checkImagesLoaded (lines 244-274).
checkImagesLoaded(check, s, fault) ==
    IF fault = "evaluate" THEN Throw(ErrorMessage("evaluate"))
    ELSE LET loaded(img) == img.complete /\ img.naturalWidth > 0
             loadedImages == SelectSeq(s.images, loaded)
             notLoaded(img) == ~loaded(img)
             failed == SelectSeq(s.images, notLoaded)
             failedImages == [i \in 1..Len(failed) |-> OrElse(failed[i].src, "unknown")]
             minCount == NumberOrElse(check.min_count, 1)
             passed == Len(loadedImages) >= minCount
         IN Return([CheckResult("images_loaded", passed,
                        IF passed THEN "images loaded successfully" ELSE "Only some images loaded")
                      EXCEPT !.images_found = Present(Len(loadedImages)),
                             !.failed_images = Present(failedImages)])

\* checkFontsLoaded (lines 276-298).
checkFontsLoaded(check, s, fault) ==
    IF ~Truthy(check.font_family)
    THEN Return(CheckResult("fonts_loaded", FALSE, "font_family is required for font check"))
    ELSE IF fault \in {"waitForTimeout", "evaluate"} THEN Throw(ErrorMessage("evaluate"))
    ELSE LET fontLoaded == check.font_family \in s.fonts
         IN Return(CheckResult("fonts_loaded", fontLoaded,
                       IF fontLoaded THEN "Font loaded successfully" ELSE "Font failed to load"))

\* checkLayoutStable (lines 300-336); layout-shift values in thousandths.
checkLayoutStable(check, s, fault) ==
    IF fault \in {"waitForTimeout", "evaluate"} THEN Throw(ErrorMessage("evaluate"))
    ELSE LET cls == SumShifts(s.layoutShifts, 1)
             passed == cls < 100
         IN Return([CheckResult("layout_stable", passed,
                        IF passed THEN "Layout stable" ELSE "Layout unstable")
                      EXCEPT !.cumulative_layout_shift = Present(cls)])

\* checkPerformance (lines 338-347).
checkPerformance(s, fault) ==
    LET metrics == getPerformanceMetrics(s, fault)
    IN IF metrics.kind = "throw" THEN metrics
       ELSE Return([CheckResult("performance", TRUE, "Page loaded")
                       EXCEPT !.load_time = Present(metrics.value.load_time)])

\* The switch of runCheck with a default branch that lets the check pass.
checkSwitchUnknownPasses(check, s, fault) ==
    CASE check.type = "screenshot" -> checkScreenshot(check, fault)
      [] check.type = "css_loaded" -> checkCssLoaded(check, s, fault)
      [] check.type = "images_loaded" -> checkImagesLoaded(check, s, fault)
      [] check.type = "fonts_loaded" -> checkFontsLoaded(check, s, fault)
      [] check.type = "layout_stable" -> checkLayoutStable(check, s, fault)
      [] check.type = "performance" -> checkPerformance(s, fault)
      [] OTHER -> Return(CheckResult(check.type, TRUE, ""))

\* The switch of runCheck (lines 148-173): how the try block completes.
checkSwitch(check, s, fault) ==
    CASE check.type = "screenshot" -> checkScreenshot(check, fault)
      [] check.type = "css_loaded" -> checkCssLoaded(check, s, fault)
      [] check.type = "images_loaded" -> checkImagesLoaded(check, s, fault)
      [] check.type = "fonts_loaded" -> checkFontsLoaded(check, s, fault)
      [] check.type = "layout_stable" -> checkLayoutStable(check, s, fault)
      [] check.type = "performance" -> checkPerformance(s, fault)
      [] OTHER -> Return(CheckResult(check.type, FALSE, "Unknown check type"))

\* runCheck whose catch block swallows the error: the check counts as passed
\* and carries no message.
runCheckSwallowsError(check, s, fault) ==
    LET c == checkSwitch(check, s, fault)
    IN IF c.kind = "throw" THEN CheckResult(check.type, TRUE, Undefined) ELSE c.value

\* runCheck (lines 146-181): the switch, and the catch that turns an error into
\* a failed check.
runCheck(check, s, fault) ==
    LET c == checkSwitch(check, s, fault)
    IN IF c.kind = "throw" THEN CheckResult(check.type, FALSE, c.error) ELSE c.value

\* The calls of getPerformanceMetrics a check makes (line 339).
MetricsCallsInside(check) == IF check.type = "performance" THEN 1 ELSE 0

\* The awaits of a check that can reject.
CheckFaults(check) ==
    CASE check.type = "screenshot" -> {"setViewportSize", "screenshot", "cloudinary"}
      [] check.type = "css_loaded" -> {"count", "evaluate"}
      [] check.type = "images_loaded" -> {"evaluate"}
      [] check.type = "fonts_loaded" -> {"waitForTimeout", "evaluate"}
      [] check.type = "layout_stable" -> {"waitForTimeout", "evaluate"}
      [] check.type = "performance" -> {"evaluate"}
      [] OTHER -> {}

\* The aggregate with some() in place of every().
OverallStatusSome(checkResults) ==
    IF \E i \in 1..Len(checkResults) : checkResults[i].passed THEN "passed" ELSE "failed"

\* checkResults.every(r => r.passed) ? 'passed' : 'failed'
OverallStatus(checkResults) ==
    IF \A i \in 1..Len(checkResults) : checkResults[i].passed THEN "passed" ELSE "failed"

VerifyLocals == [loadTime |-> 0, checkResults |-> <<>>]

\* The loop leaving at the first failed check.
VerifyLoopShortCircuit(req, l) ==
    IF Len(l.checkResults) < Len(req.checks)
       /\ (l.checkResults = <<>> \/ l.checkResults[Len(l.checkResults)].passed)
    THEN Await("runCheck", l)
    ELSE Await("getPerformanceMetrics", l)

\* Lines 103-109: the loop over request.checks, then the metrics.
VerifyLoop(req, l) ==
    IF Len(l.checkResults) < Len(req.checks) THEN Await("runCheck", l)
    ELSE Await("getPerformanceMetrics", l)

\* The result carrying the metrics as getPerformanceMetrics returned them.
VerifyResultRawMetrics(req, l, metrics) ==
    [url |-> req.url, status |-> OverallStatus(l.checkResults), checks |-> l.checkResults,
     performance |-> metrics]

\* Lines 111-131.
VerifyResult(req, l, metrics) ==
    [url |-> req.url, status |-> OverallStatus(l.checkResults), checks |-> l.checkResults,
     performance |-> [metrics EXCEPT !.load_time = l.loadTime]]

\* A catch block that folds the fault into a result, as validate's does.
VerifyCatchFolds(msg) == Return([status |-> "error", checks |-> <<>>, error_message |-> msg])

\* verify's catch block (lines 132-138) logs and rethrows.
VerifyCatch(msg) == Throw(msg)

\* (newPage) lines 87-99.
VerifyNewPage(r) ==
    /\ pc[r] = "newPage" /\ call[r].op = "verify"
    /\ \/ LET p == NewPageId(pages, r)
          IN Resolve(r, Await("goto", local[r]), p, OpenPage(pages, p, r, DefaultViewport))
       \/ Reject(r, "newPage", VerifyCatch(ErrorMessage("newPage")))
    /\ UNCHANGED <<call, site, batch, http, browser, process>>

\* (goto) lines 96-109.
VerifyGoto(r) ==
    /\ pc[r] = "goto" /\ call[r].op = "verify"
    /\ \/ Resolve(r, VerifyLoop(call[r], [local[r] EXCEPT !.loadTime = site[r].loadTime]),
                   page[r], pages)
       \/ Reject(r, "goto", VerifyCatch(ErrorMessage("goto")))
    /\ UNCHANGED <<call, site, batch, http, browser, process>>

\* (runCheck) one iteration of the loop: lines 106-109.
VerifyRunCheck(r) ==
    /\ pc[r] = "runCheck"
    /\ LET check == call[r].checks[Len(local[r].checkResults) + 1]
       IN \E fault \in {"none"} \cup CheckFaults(check) :
            /\ Continue(r,
                   VerifyLoop(call[r], [local[r] EXCEPT
                       !.checkResults = Append(@, runCheck(check, site[r], fault))]),
                   page[r],
                   IF check.type = "screenshot"
                   THEN [pages EXCEPT ![page[r]].viewport = ViewportAfterScreenshot(check, fault, @)]
                   ELSE pages)
            /\ rejected' = IF checkSwitch(check, site[r], fault).kind = "throw"
                            THEN [rejected EXCEPT ![r] = @ \cup {"runCheck"}]
                            ELSE rejected
    /\ UNCHANGED <<call, site, batch, http, browser, process>>

\* (getPerformanceMetrics) lines 115-131.
VerifyMetrics(r) ==
    /\ pc[r] = "getPerformanceMetrics"
    /\ \E fault \in {"none", "evaluate"} :
         LET metrics == getPerformanceMetrics(site[r], fault)
         IN IF metrics.kind = "throw"
            THEN Reject(r, "getPerformanceMetrics", VerifyCatch(metrics.error))
            ELSE Resolve(r, Leave(Return(VerifyResult(call[r], local[r], metrics.value)), local[r]),
                         page[r], pages)
    /\ UNCHANGED <<call, site, batch, http, browser, process>>

----------------------------------------------------------------------------
(* compareImages and DeploymentVerifier.visualRegression *)

\* Differences and thresholds are in hundredths: 5 is 0.05.
PlaceholderDifference == 5

\* The comparison passing only below the threshold.
compareImagesStrict(baselineUrl, threshold) ==
    LET difference == PlaceholderDifference
        passed == difference < threshold
    IN [passed |-> passed, difference |-> difference, diffImageUrl |-> Undefined,
        differences |-> <<[area |-> "header", severity |-> "minor", pixels_changed |-> 1200]>>]

\* compareImages (lines 79-119 of the utilities): the placeholder comparison.
compareImages(baselineUrl, threshold) ==
    LET difference == PlaceholderDifference
        passed == difference <= threshold
    IN [passed |-> passed, difference |-> difference, diffImageUrl |-> Undefined,
        differences |-> <<[area |-> "header", severity |-> "minor", pixels_changed |-> 1200]>>]

\* A result without baseline that leaves the current screenshot out.
NoBaselineResultBare(req, currentScreenshotUrl) ==
    [passed |-> TRUE, pixel_difference |-> 0, threshold |-> req.threshold,
     diff_image_url |-> Undefined, current_screenshot_url |-> Undefined,
     differences_found |-> Absent]

\* Lines 383-391.
NoBaselineResult(req, currentScreenshotUrl) ==
    [passed |-> TRUE, pixel_difference |-> 0, threshold |-> req.threshold,
     diff_image_url |-> Undefined, current_screenshot_url |-> currentScreenshotUrl,
     differences_found |-> Absent]

\* Lines 400-407.
ComparisonResult(req, currentScreenshotUrl, comparison) ==
    [passed |-> comparison.passed, pixel_difference |-> comparison.difference,
     threshold |-> req.threshold,
     diff_image_url |-> comparison.diffImageUrl, current_screenshot_url |-> currentScreenshotUrl,
     differences_found |-> Present(comparison.differences)]

RegressionLocals == [currentScreenshotUrl |-> Undefined]

\* visualRegression comparing whether or not a baseline was given.
AfterCurrentUploadAlwaysCompares(req, l) == Await("compareImages", l)

\* Lines 381-398: the upload has resolved.
AfterCurrentUpload(req, l) ==
    IF ~Truthy(req.baselineScreenshot)
    THEN Leave(Return(NoBaselineResult(req, l.currentScreenshotUrl)), l)
    ELSE Await("compareImages", l)

\* (newPage) lines 371-378.  visualRegression has no catch block.
RegressionNewPage(r) ==
    /\ pc[r] = "newPage" /\ call[r].op = "visualRegression"
    /\ \/ LET p == NewPageId(pages, r)
          IN Resolve(r, Await("goto", local[r]), p, OpenPage(pages, p, r, call[r].viewport))
       \/ Reject(r, "newPage", Throw(ErrorMessage("newPage")))
    /\ UNCHANGED <<call, site, batch, http, browser, process>>

\* (goto) lines 375-380.
RegressionGoto(r) ==
    /\ pc[r] = "goto" /\ call[r].op = "visualRegression"
    /\ \/ Resolve(r, Await("screenshot", local[r]), page[r], pages)
       \/ Reject(r, "goto", Throw(ErrorMessage("goto")))
    /\ UNCHANGED <<call, site, batch, http, browser, process>>

\* (screenshot) lines 380-381.
RegressionScreenshot(r) ==
    /\ pc[r] = "screenshot" /\ call[r].op = "visualRegression"
    /\ \/ Resolve(r, Await("cloudinary", local[r]), page[r], pages)
       \/ Reject(r, "screenshot", Throw(ErrorMessage("screenshot")))
    /\ UNCHANGED <<call, site, batch, http, browser, process>>

\* (cloudinary) lines 381-398.
RegressionUpload(r) ==
    /\ pc[r] = "cloudinary" /\ call[r].op = "visualRegression"
    /\ \/ Resolve(r, AfterCurrentUpload(call[r],
                        [local[r] EXCEPT !.currentScreenshotUrl = SecureUrl("visual-regression")]),
                   page[r], pages)
       \/ Reject(r, "cloudinary", Throw(UploadError))
    /\ UNCHANGED <<call, site, batch, http, browser, process>>

\* (compareImages) lines 394-407; compareImages awaits nothing and cannot reject.
RegressionCompare(r) ==
    /\ pc[r] = "compareImages"
    /\ Resolve(r,
           Leave(Return(ComparisonResult(call[r], local[r].currentScreenshotUrl,
                                         compareImages(call[r].baselineScreenshot, call[r].threshold))),
                 local[r]),
           page[r], pages)
    /\ UNCHANGED <<call, site, batch, http, browser, process>>

----------------------------------------------------------------------------
(* ScreenshotService.capture *)

CaptureLocals == [shot |-> Undefined]

\* Lines 72-78; file_size is the length of the captured buffer.
CaptureResult(req, s, screenshotUrl) ==
    [screenshot_url |-> screenshotUrl, width |-> req.viewport.width,
     height |-> req.viewport.height, file_size |-> s.fileSize]

\* capture's catch block (lines 79-84) logs and rethrows.
CaptureCatch(msg) == Throw(msg)

\* Lines 51-63: the element when a selector is given, else the page.
CaptureTarget(req) ==
    IF Truthy(req.selector) THEN "element"
    ELSE IF req.fullPage THEN "fullPage" ELSE "viewport"

\* (newPage) lines 40-49.
CaptureNewPage(r) ==
    /\ pc[r] = "newPage" /\ call[r].op = "capture"
    /\ \/ LET p == NewPageId(pages, r)
          IN Resolve(r, Await("goto", local[r]), p, OpenPage(pages, p, r, call[r].viewport))
       \/ Reject(r, "newPage", CaptureCatch(ErrorMessage("newPage")))
    /\ UNCHANGED <<call, site, batch, http, browser, process>>

\* (goto) lines 46-63.
CaptureGoto(r) ==
    /\ pc[r] = "goto" /\ call[r].op = "capture"
    /\ \/ Resolve(r, Await("screenshot", [local[r] EXCEPT !.shot = CaptureTarget(call[r])]),
                   page[r], pages)
       \/ Reject(r, "goto", CaptureCatch(ErrorMessage("goto")))
    /\ UNCHANGED <<call, site, batch, http, browser, process>>

\* (screenshot) lines 56-65.
CaptureScreenshot(r) ==
    /\ pc[r] = "screenshot" /\ call[r].op = "capture"
    /\ \/ Resolve(r, Await("cloudinary", local[r]), page[r], pages)
       \/ Reject(r, "screenshot", CaptureCatch(ErrorMessage("screenshot")))
    /\ UNCHANGED <<call, site, batch, http, browser, process>>

\* (cloudinary) lines 65-78.
CaptureUpload(r) ==
    /\ pc[r] = "cloudinary" /\ call[r].op = "capture"
    /\ \/ Resolve(r, Leave(Return(CaptureResult(call[r], site[r], SecureUrl("screenshots"))), local[r]),
                   page[r], pages)
       \/ Reject(r, "cloudinary", CaptureCatch(UploadError))
    /\ UNCHANGED <<call, site, batch, http, browser, process>>

----------------------------------------------------------------------------
(* CitationValidator.batchValidate *)

\* Slot i runs citations[i].
BatchMembers(b) == 1..Len(b.citations)

RECURSIVE FirstThrown(_, _, _)
FirstThrown(members, out, order) ==
    IF order = <<>> THEN NoCompletion
    ELSE IF Head(order) \in members /\ out[Head(order)].kind = "throw" THEN out[Head(order)]
    ELSE FirstThrown(members, out, Tail(order))

\* An aggregation that collects the values as the members settle.
PromiseAllAsSettled(n, out, order) ==
    IF \E i \in 1..n : out[i].kind = "throw" THEN FirstThrown(1..n, out, order)
    ELSE IF \A i \in 1..n : out[i].kind = "return" THEN Return([i \in 1..n |-> out[order[i]].value])
    ELSE NoCompletion

\* Promise.all over the members' promises: rejected with the first rejection,
\* resolved with the values in the order of the input once all have resolved.
PromiseAll(n, out, order) ==
    IF \E i \in 1..n : out[i].kind = "throw" THEN FirstThrown(1..n, out, order)
    ELSE IF \A i \in 1..n : out[i].kind = "return" THEN Return([i \in 1..n |-> out[i].value])
    ELSE NoCompletion

\* (batchValidate called) citations.map(citation => this.validate(citation)):
\* every member call runs up to its first await, browser.newPage (lines 270-272).
BatchStart ==
    /\ batch.state = "idle"
    /\ batch' = [batch EXCEPT !.state = "running"]
    /\ pc' = [r \in Reqs |-> IF r \in BatchMembers(batch) THEN "newPage" ELSE pc[r]]
    /\ log' = [r \in Reqs |-> IF r \in BatchMembers(batch) THEN <<"newPage">> ELSE log[r]]
    /\ UNCHANGED <<call, site, page, local, completion, outcome, rejected, pages, completed, http, browser, process>>

\* (Promise.all settles) lines 270-281.
BatchSettle ==
    /\ batch.state = "running"
    /\ LET c == PromiseAll(Len(batch.citations), outcome, completed)
       IN /\ c.kind # "none"
          /\ batch' = [batch EXCEPT !.state = "settled", !.outcome = c]
    /\ UNCHANGED <<call, site, pc, page, local, completion, outcome, log, rejected, pages, completed, http, browser, process>>

----------------------------------------------------------------------------
(* Inputs *)

NoCall == [op |-> "none"]

ExpectedTexts == {Undefined, "", "Example Domain"}

ValidateCalls ==
    {[op |-> "validate", url |-> u, expectedText |-> t, takeScreenshot |-> ts, checkPaywall |-> cp] :
        u \in {"https://a.test"}, t \in ExpectedTexts, ts \in BOOLEAN, cp \in BOOLEAN}

MobileViewport == Viewport(375, 667)

Check(type) ==
    [type |-> type, selector |-> Undefined, viewport |-> Absent, min_count |-> Absent,
     font_family |-> Undefined, wait_time |-> Absent]

Checks ==
    {Check("screenshot"), [Check("screenshot") EXCEPT !.viewport = Present(MobileViewport)],
     Check("css_loaded"), [Check("css_loaded") EXCEPT !.selector = ".hero"],
     Check("images_loaded"), [Check("images_loaded") EXCEPT !.min_count = Present(2)],
     Check("fonts_loaded"), [Check("fonts_loaded") EXCEPT !.font_family = "Inter"],
     Check("layout_stable"), Check("performance"), Check("seo")}

RECURSIVE SeqsUpTo(_, _)
SeqsUpTo(S, n) ==
    IF n = 0 THEN {<<>>}
    ELSE LET shorter == SeqsUpTo(S, n - 1)
         IN shorter \cup {Append(q, x) : q \in {t \in shorter : Len(t) = n - 1}, x \in S}

VerifyCalls ==
    {[op |-> "verify", url |-> u, checks |-> cs] : u \in {"https://a.test"}, cs \in SeqsUpTo(Checks, MaxChecks)}

Thresholds == {0, 4, 5, 10}

RegressionCalls ==
    {[op |-> "visualRegression", url |-> "https://a.test", baselineScreenshot |-> b,
      threshold |-> t, viewport |-> vp] :
        b \in {Undefined, "https://res.cloudinary.com/quest-platform/baseline.png"},
        t \in Thresholds, vp \in {DefaultViewport, MobileViewport}}

CaptureCalls ==
    {[op |-> "capture", url |-> "https://a.test", viewport |-> vp, selector |-> sel, fullPage |-> fp] :
        vp \in {DefaultViewport, MobileViewport}, sel \in {Undefined, "#card"}, fp \in BOOLEAN}

\* A page with nothing on it that any probe reacts to.
PlainSite ==
    [response |-> <<200>>, title |-> "Example Domain",
     text |-> {}, elementText |-> Null, frames |-> <<"https://a.test/">>,
     exact |-> TRUE, partial |-> TRUE, html |-> TRUE,
     selectors |-> {".hero"},
     images |-> <<[src |-> "/logo.png", complete |-> TRUE, naturalWidth |-> 64]>>,
     fonts |-> {"Inter"},
     layoutShifts |-> <<[value |-> 60, hadRecentInput |-> FALSE], [value |-> 50, hadRecentInput |-> TRUE]>>,
     domContentLoaded |-> 12, firstContentfulPaint |-> Present(340),
     loadTime |-> 800, fileSize |-> 2048]

Responses == {<<>>, <<200>>, <<400>>, <<404>>}

\* What the rendered text matches, with the text of the first matching element.
CaptchaTexts == {{}, {"verify you are human"}}
PaywallTexts ==
    {[text |-> {}, elementText |-> Null],
     [text |-> {"subscribe"}, elementText |-> "Subscribe to continue reading"],
     [text |-> {"subscribe"}, elementText |-> ""],
     [text |-> {"paywall", "unlock this article"}, elementText |-> Null]}
FrameLists == {<<"https://a.test/">>, <<"https://a.test/", "https://www.google.com/recaptcha/api2/anchor">>}

CitationSites ==
    {[PlainSite EXCEPT !.response = rs, !.text = ct \cup pw.text, !.elementText = pw.elementText,
                       !.frames = fr, !.exact = ex, !.partial = pa, !.html = ht] :
        rs \in Responses, ct \in CaptchaTexts, pw \in PaywallTexts, fr \in FrameLists,
        ex \in BOOLEAN, pa \in BOOLEAN, ht \in BOOLEAN}

\* A page on which the deployment checks fail.
BrokenSite ==
    [PlainSite EXCEPT !.selectors = {},
        !.images = <<[src |-> "/logo.png", complete |-> TRUE, naturalWidth |-> 64],
                     [src |-> Null, complete |-> TRUE, naturalWidth |-> 0]>>,
        !.fonts = {},
        !.layoutShifts = <<[value |-> 60, hadRecentInput |-> FALSE], [value |-> 70, hadRecentInput |-> FALSE]>>,
        !.firstContentfulPaint = Absent]

DeploymentSites == {PlainSite, BrokenSite}

SitesFor(c) ==
    CASE c.op = "validate" -> CitationSites
      [] c.op = "verify" -> DeploymentSites
      [] OTHER -> {PlainSite}

LocalsFor(c) ==
    CASE c.op = "validate" -> ValidateLocals
      [] c.op = "verify" -> VerifyLocals
      [] c.op = "visualRegression" -> RegressionLocals
      [] c.op = "capture" -> CaptureLocals
      [] OTHER -> ValidateLocals

Calls == ValidateCalls \cup VerifyCalls \cup RegressionCalls \cup CaptureCalls

NoBatch == [state |-> "none", citations |-> <<>>, outcome |-> NoCompletion]

\* The handlers of the HTTP server: handler r > 0 runs its service call in slot
\* r; handler 0 is the batch endpoint's, whose batchValidate runs in slots 1..n.
BatchHandler == 0
Handlers == {BatchHandler} \cup Reqs

\* No request: code 0 stands for no response sent yet.
NoRequest == [endpoint |-> "none", body |-> <<>>, code |-> 0, json |-> <<>>]
NoHttp == [h \in Handlers |-> NoRequest]

\* The value of `browser` once chromium.launch has resolved.
Launched == "Browser"

Signals == {"SIGTERM", "SIGINT"}

\* The Node process.  state: startServer awaits chromium.launch ("starting"),
\* app.listen has been called ("listening"), or process.exit has been called
\* ("exited", with its code in exit and the caller in by).  closing: the
\* signals whose handler awaits browser.close().  engine: the browser
\* process itself.
Process(state, engine) ==
    [state |-> state, exit |-> Absent, by |-> "none", closing |-> {}, engine |-> engine]

Starting == Process("starting", "none")
Listening == Process("listening", "running")

----------------------------------------------------------------------------
(* One service call in flight *)

\* A call has been made in the first slot and is suspended at browser.newPage.
Init ==
    \E a \in {1} : \E c \in Calls : \E s \in SitesFor(c) :
        /\ call = [r \in Reqs |-> IF r = a THEN c ELSE NoCall]
        /\ site = [r \in Reqs |-> IF r = a THEN s ELSE PlainSite]
        /\ pc = [r \in Reqs |-> IF r = a THEN "newPage" ELSE "idle"]
        /\ page = [r \in Reqs |-> NoPage]
        /\ local = [r \in Reqs |-> IF r = a THEN LocalsFor(c) ELSE LocalsFor(NoCall)]
        /\ completion = [r \in Reqs |-> NoCompletion]
        /\ outcome = [r \in Reqs |-> NoCompletion]
        /\ log = [r \in Reqs |-> IF r = a THEN <<"newPage">> ELSE <<>>]
        /\ rejected = [r \in Reqs |-> {}]
        /\ pages = [p \in PageIds |-> FreshPage]
        /\ batch = NoBatch
        /\ completed = <<>>
        /\ http = NoHttp
        /\ browser = Launched
        /\ process = Listening

Step(r) ==
    \/ ValidateNewPage(r) \/ ValidateGoto(r) \/ ValidateTitle(r) \/ ValidateDetectCaptcha(r)
    \/ ValidateDetectPaywall(r) \/ ValidateFindExpectedText(r) \/ ValidateScreenshot(r)
    \/ ValidateUpload(r)
    \/ VerifyNewPage(r) \/ VerifyGoto(r) \/ VerifyRunCheck(r) \/ VerifyMetrics(r)
    \/ RegressionNewPage(r) \/ RegressionGoto(r) \/ RegressionScreenshot(r)
    \/ RegressionUpload(r) \/ RegressionCompare(r)
    \/ CaptureNewPage(r) \/ CaptureGoto(r) \/ CaptureScreenshot(r) \/ CaptureUpload(r)
    \/ Close(r)

Next == \E r \in Reqs : Step(r)

Spec == Init /\ [][Next]_vars

\* Every awaited browser or upload call eventually settles: a call that can be
\* resumed is eventually resumed.
SpecLive == Spec /\ \A r \in Reqs : WF_vars(Step(r))

----------------------------------------------------------------------------
(* Concurrent calls: one batchValidate call beside independent calls *)

\* The citations of the batch: a URL each, no expected text and no optional step.
BatchCitations ==
    {[op |-> "validate", url |-> u, expectedText |-> Undefined,
      takeScreenshot |-> FALSE, checkPaywall |-> FALSE] : u \in Urls}

\* What each URL serves while the calls run.
SiteOf(url) == IF url = "https://b.test" THEN [PlainSite EXCEPT !.response = <<404>>] ELSE PlainSite

\* The independent calls: screenshot captures.
OtherCalls ==
    {[op |-> "capture", url |-> "https://a.test", viewport |-> DefaultViewport,
      selector |-> Undefined, fullPage |-> FALSE]}

Min(a, b) == IF a <= b THEN a ELSE b

\* batchValidate is about to be called with n citations (slots 1..n will run
\* them); the other slots hold independent calls suspended at browser.newPage.
InitBatch ==
    \E n \in 0..Min(MaxBatch, NumReq) :
    \E cs \in [Reqs -> BatchCitations \cup OtherCalls] :
        /\ \A r \in Reqs : IF r <= n THEN cs[r] \in BatchCitations ELSE cs[r] \in OtherCalls
        /\ call = cs
        /\ site = [r \in Reqs |-> SiteOf(cs[r].url)]
        /\ pc = [r \in Reqs |-> IF r <= n THEN "idle" ELSE "newPage"]
        /\ page = [r \in Reqs |-> NoPage]
        /\ local = [r \in Reqs |-> LocalsFor(cs[r])]
        /\ completion = [r \in Reqs |-> NoCompletion]
        /\ outcome = [r \in Reqs |-> NoCompletion]
        /\ log = [r \in Reqs |-> IF r <= n THEN <<>> ELSE <<"newPage">>]
        /\ rejected = [r \in Reqs |-> {}]
        /\ pages = [p \in PageIds |-> FreshPage]
        /\ batch = [state |-> "idle", citations |-> [i \in 1..n |-> cs[i]], outcome |-> NoCompletion]
        /\ completed = <<>>
        /\ http = NoHttp
        /\ browser = Launched
        /\ process = Listening

\* The steps of validate that a citation with no optional step goes through.
ValidateCoreStep(r) ==
    ValidateNewPage(r) \/ ValidateGoto(r) \/ ValidateTitle(r) \/ ValidateDetectCaptcha(r)

CaptureStep(r) == CaptureNewPage(r) \/ CaptureGoto(r) \/ CaptureScreenshot(r) \/ CaptureUpload(r)

NextBatch ==
    \/ BatchStart
    \/ BatchSettle
    \/ \E r \in Reqs : ValidateCoreStep(r) \/ CaptureStep(r) \/ Close(r)

SpecBatch == InitBatch /\ [][NextBatch]_vars


----------------------------------------------------------------------------
(* The HTTP endpoints for citations *)

\* JSON booleans of a request body are "true" and "false"; a key left out is
\* undefined.
Nullish(v) == v \in {Undefined, Null}

\* `a ?? b`
NullishOr(a, b) == IF Nullish(a) THEN b ELSE a

\* The truthiness validate tests a flag of its request for.
ToBoolean(v) == Truthy(v) /\ v # False

\* A citation as it arrives in a request body, with the keys that an endpoint
\* or validate reads.
WireCitation(url, expectedText, takeScreenshot, checkPaywall, snake) ==
    [url |-> url,
     expected_text |-> IF snake THEN expectedText ELSE Undefined,
     take_screenshot |-> IF snake THEN takeScreenshot ELSE Undefined,
     check_paywall |-> IF snake THEN checkPaywall ELSE Undefined,
     expectedText |-> IF snake THEN Undefined ELSE expectedText,
     takeScreenshot |-> IF snake THEN Undefined ELSE takeScreenshot,
     checkPaywall |-> IF snake THEN Undefined ELSE checkPaywall]

\* POST /api/validate-citation builds the request of validate (lines 64-69).
ValidateCitationCall(body) ==
    [op |-> "validate", url |-> body.url, expectedText |-> body.expected_text,
     takeScreenshot |-> ToBoolean(NullishOr(body.take_screenshot, True)),
     checkPaywall |-> ToBoolean(NullishOr(body.check_paywall, True))]

\* POST /api/batch-validate-citations hands the elements of the body's array
\* to validate as they are (line 195); validate reads url, expectedText,
\* takeScreenshot and checkPaywall of each.
BatchCitationCall(citation) ==
    [op |-> "validate", url |-> citation.url, expectedText |-> citation.expectedText,
     takeScreenshot |-> ToBoolean(citation.takeScreenshot),
     checkPaywall |-> ToBoolean(citation.checkPaywall)]

Respond(h, code, json) == http' = [http EXCEPT ![h].code = code, ![h].json = json]

\* The message of the error a handler throws for a null `browser`.
BrowserNotInitialized == "Browser not initialized"

\* A handler that never finds the browser missing.
BrowserMissingNever(b) == FALSE

\* `!browser`
BrowserMissing(b) == b = Null

\* The response a handler's catch block sends: the endpoint's own error and
\* the message of what was thrown.
Failure(error, message) == [error |-> error, message |-> message]

\* The start of a handler that runs one service call: the 400 for a body
\* without url, the throw for a null browser (caught by the handler's own
\* catch), otherwise the service call c up to its first await, newPage.
Dispatch(h, c, locals, error) ==
    IF ~Truthy(http[h].body.url)
    THEN /\ Respond(h, 400, [error |-> "URL is required"])
         /\ UNCHANGED <<call, pc, local, log>>
    ELSE IF BrowserMissing(browser)
    THEN /\ Respond(h, 500, Failure(error, BrowserNotInitialized))
         /\ UNCHANGED <<call, pc, local, log>>
    ELSE /\ call' = [call EXCEPT ![h] = c]
         /\ pc' = [pc EXCEPT ![h] = "newPage"]
         /\ local' = [local EXCEPT ![h] = locals]
         /\ log' = [log EXCEPT ![h] = <<"newPage">>]
         /\ UNCHANGED http

\* A catch block that forgets res.status(500).
AnswerWithoutStatus(h, error) ==
    IF outcome[h].kind = "return"
    THEN Respond(h, 200, outcome[h].value)
    ELSE Respond(h, 200, Failure(error, outcome[h].error))

\* The end of such a handler: res.json(result), or the catch block's 500.
Answer(h, error) ==
    IF outcome[h].kind = "return"
    THEN Respond(h, 200, outcome[h].value)
    ELSE Respond(h, 500, Failure(error, outcome[h].error))

\* (validate-citation, request) lines 51-69: the handler runs up to the first
\* await of validate.
HttpValidateCitation(h) ==
    /\ h \in Reqs
    /\ http[h].endpoint = "validate-citation" /\ http[h].code = 0 /\ pc[h] = "idle"
    /\ Dispatch(h, ValidateCitationCall(http[h].body), ValidateLocals, "Citation validation failed")
    /\ UNCHANGED <<site, page, completion, outcome, rejected, pages, batch, completed,
                   browser, process>>

\* (validate-citation, response) lines 64-80.
HttpValidateCitationRespond(h) ==
    /\ h \in Reqs
    /\ http[h].endpoint = "validate-citation" /\ http[h].code = 0 /\ pc[h] = "done"
    /\ Answer(h, "Citation validation failed")
    /\ UNCHANGED <<call, site, pc, page, local, completion, outcome, log, rejected, pages,
                   batch, completed, browser, process>>

\* (batch-validate-citations, request) lines 182-195, and batchValidate up to
\* its await (lines 265-272): every member validate runs up to browser.newPage.
  \* body.citations: <<>> when not an array, <<array>> otherwise
HttpBatchValidate ==
    /\ http[BatchHandler].endpoint = "batch-validate-citations"
    /\ http[BatchHandler].code = 0 /\ batch.state = "none"
    /\ IF http[BatchHandler].body.citations = Absent
       THEN /\ Respond(BatchHandler, 400, [error |-> "Citations array is required"])
            /\ UNCHANGED <<call, pc, local, log, batch>>
       ELSE IF BrowserMissing(browser)
       THEN /\ Respond(BatchHandler, 500,
                       Failure("Batch citation validation failed", BrowserNotInitialized))
            /\ UNCHANGED <<call, pc, local, log, batch>>
       ELSE LET citations == http[BatchHandler].body.citations[1]
                n == Len(citations)
            IN /\ n <= NumReq /\ \A r \in 1..n : pc[r] = "idle"
               /\ batch' = [state |-> "running",
                            citations |-> [i \in 1..n |-> BatchCitationCall(citations[i])],
                            outcome |-> NoCompletion]
               /\ call' = [r \in Reqs |-> IF r <= n THEN BatchCitationCall(citations[r]) ELSE call[r]]
               /\ pc' = [r \in Reqs |-> IF r <= n THEN "newPage" ELSE pc[r]]
               /\ local' = [r \in Reqs |-> IF r <= n THEN ValidateLocals ELSE local[r]]
               /\ log' = [r \in Reqs |-> IF r <= n THEN <<"newPage">> ELSE log[r]]
               /\ UNCHANGED http
    /\ UNCHANGED <<site, page, completion, outcome, rejected, pages, completed, browser, process>>

\* (batch-validate-citations, response) lines 195-212.
HttpBatchRespond ==
    /\ http[BatchHandler].endpoint = "batch-validate-citations"
    /\ http[BatchHandler].code = 0 /\ batch.state = "settled"
    /\ IF batch.outcome.kind = "return"
       THEN Respond(BatchHandler, 200,
                    [total |-> Len(batch.citations), results |-> batch.outcome.value])
       ELSE Respond(BatchHandler, 500,
                    Failure("Batch citation validation failed", batch.outcome.error))
    /\ UNCHANGED <<call, site, pc, page, local, completion, outcome, log, rejected, pages,
                   batch, completed, browser, process>>

\* The flags of a request body.
Flags == {Undefined, True, False}

\* The citations clients send: with the keys validate-citation reads, or with
\* the keys of the request validate takes.
WireCitations ==
    {WireCitation(u, t, ts, cp, snake) :
        u \in {"https://a.test"}, t \in {Undefined, "Example Domain"},
        ts \in Flags, cp \in Flags, snake \in BOOLEAN}

\* The pages the citation is checked against.
HttpSites ==
    {PlainSite,
     [PlainSite EXCEPT !.exact = FALSE, !.partial = FALSE, !.html = FALSE],
     [PlainSite EXCEPT !.text = {"subscribe"}, !.elementText = "Subscribe to continue reading"],
     [PlainSite EXCEPT !.response = <<404>>]}

\* The slot of the validate-citation handler; the batch member runs in slot 1.
SingleHandler == NumReq

\* The same citation has been posted to validate-citation and, as the only
\* element of the array, to batch-validate-citations; both see the same page.
InitHttp ==
    \E c \in WireCitations \cup {WireCitation(Undefined, Undefined, Undefined, Undefined, TRUE)} :
    \E s \in HttpSites :
    \E array \in {Absent, Present(<<c>>)} :
        /\ http = [h \in Handlers |->
                     IF h = BatchHandler
                     THEN [NoRequest EXCEPT !.endpoint = "batch-validate-citations",
                                            !.body = [citations |-> array]]
                     ELSE IF h = SingleHandler
                     THEN [NoRequest EXCEPT !.endpoint = "validate-citation", !.body = c]
                     ELSE NoRequest]
        /\ call = [r \in Reqs |-> NoCall]
        /\ site = [r \in Reqs |-> s]
        /\ pc = [r \in Reqs |-> "idle"]
        /\ page = [r \in Reqs |-> NoPage]
        /\ local = [r \in Reqs |-> LocalsFor(NoCall)]
        /\ completion = [r \in Reqs |-> NoCompletion]
        /\ outcome = [r \in Reqs |-> NoCompletion]
        /\ log = [r \in Reqs |-> <<>>]
        /\ rejected = [r \in Reqs |-> {}]
        /\ pages = [p \in PageIds |-> FreshPage]
        /\ batch = NoBatch
        /\ completed = <<>>
        /\ browser = Launched
        /\ process = Listening

ValidateStep(r) ==
    \/ ValidateNewPage(r) \/ ValidateGoto(r) \/ ValidateTitle(r) \/ ValidateDetectCaptcha(r)
    \/ ValidateDetectPaywall(r) \/ ValidateFindExpectedText(r) \/ ValidateScreenshot(r)
    \/ ValidateUpload(r)

NextHttp ==
    \/ HttpBatchValidate
    \/ BatchSettle
    \/ HttpBatchRespond
    \/ \E r \in Reqs : HttpValidateCitation(r) \/ HttpValidateCitationRespond(r)
                         \/ ValidateStep(r) \/ Close(r)

SpecHttp == InitHttp /\ [][NextHttp]_vars

----------------------------------------------------------------------------
(* The other operation endpoints *)

\* threshold ?? 0.1 (visual-regression): ratios are counted in hundredths.
DefaultThreshold == 10

\* POST /api/verify-deployment builds the request of verify (lines 97-101).
VerifyDeploymentCall(body) ==
    [op |-> "verify", url |-> body.url,
     checks |-> IF body.checks = Absent THEN <<>> ELSE body.checks[1]]

\* POST /api/screenshot builds the request of capture (lines 129-134).
ScreenshotCall(body) ==
    [op |-> "capture", url |-> body.url,
     viewport |-> IF body.viewport = Absent THEN DefaultViewport ELSE body.viewport[1],
     selector |-> body.selector,
     fullPage |-> ToBoolean(NullishOr(body.full_page, False))]

\* POST /api/visual-regression builds the request of visualRegression (lines 162-167).
VisualRegressionCall(body) ==
    [op |-> "visualRegression", url |-> body.url,
     baselineScreenshot |-> body.baseline_screenshot,
     threshold |-> IF body.threshold = Absent THEN DefaultThreshold ELSE body.threshold[1],
     viewport |-> IF body.viewport = Absent THEN DefaultViewport ELSE body.viewport[1]]

\* (verify-deployment, request) lines 84-97.
HttpVerifyDeployment(h) ==
    /\ h \in Reqs
    /\ http[h].endpoint = "verify-deployment" /\ http[h].code = 0 /\ pc[h] = "idle"
    /\ Dispatch(h, VerifyDeploymentCall(http[h].body), VerifyLocals, "Deployment verification failed")
    /\ UNCHANGED <<site, page, completion, outcome, rejected, pages, batch, completed,
                   browser, process>>

\* (verify-deployment, response) lines 97-112.
HttpVerifyDeploymentRespond(h) ==
    /\ h \in Reqs
    /\ http[h].endpoint = "verify-deployment" /\ http[h].code = 0 /\ pc[h] = "done"
    /\ Answer(h, "Deployment verification failed")
    /\ UNCHANGED <<call, site, pc, page, local, completion, outcome, log, rejected, pages,
                   batch, completed, browser, process>>

\* (screenshot, request) lines 116-129.
HttpScreenshot(h) ==
    /\ h \in Reqs
    /\ http[h].endpoint = "screenshot" /\ http[h].code = 0 /\ pc[h] = "idle"
    /\ Dispatch(h, ScreenshotCall(http[h].body), CaptureLocals, "Screenshot capture failed")
    /\ UNCHANGED <<site, page, completion, outcome, rejected, pages, batch, completed,
                   browser, process>>

\* (screenshot, response) lines 129-145.
HttpScreenshotRespond(h) ==
    /\ h \in Reqs
    /\ http[h].endpoint = "screenshot" /\ http[h].code = 0 /\ pc[h] = "done"
    /\ Answer(h, "Screenshot capture failed")
    /\ UNCHANGED <<call, site, pc, page, local, completion, outcome, log, rejected, pages,
                   batch, completed, browser, process>>

\* (visual-regression, request) lines 149-162.
HttpVisualRegression(h) ==
    /\ h \in Reqs
    /\ http[h].endpoint = "visual-regression" /\ http[h].code = 0 /\ pc[h] = "idle"
    /\ Dispatch(h, VisualRegressionCall(http[h].body), RegressionLocals, "Visual regression test failed")
    /\ UNCHANGED <<site, page, completion, outcome, rejected, pages, batch, completed,
                   browser, process>>

\* (visual-regression, response) lines 162-178.
HttpVisualRegressionRespond(h) ==
    /\ h \in Reqs
    /\ http[h].endpoint = "visual-regression" /\ http[h].code = 0 /\ pc[h] = "done"
    /\ Answer(h, "Visual regression test failed")
    /\ UNCHANGED <<call, site, pc, page, local, completion, outcome, log, rejected, pages,
                   batch, completed, browser, process>>

\* The handlers of the operation endpoints.
HttpStep(h) ==
    \/ HttpValidateCitation(h) \/ HttpValidateCitationRespond(h)
    \/ HttpVerifyDeployment(h) \/ HttpVerifyDeploymentRespond(h)
    \/ HttpScreenshot(h) \/ HttpScreenshotRespond(h)
    \/ HttpVisualRegression(h) \/ HttpVisualRegressionRespond(h)

\* The requests clients post, by endpoint.
Post(endpoint, body) == [NoRequest EXCEPT !.endpoint = endpoint, !.body = body]

PostedUrls == {Undefined, "https://a.test"}

CitationPosts ==
    {Post("validate-citation", WireCitation(u, t, ts, Undefined, TRUE)) :
        u \in PostedUrls, t \in {Undefined, "Example Domain"}, ts \in {Undefined, False}}

BatchPosts ==
    {Post("batch-validate-citations", [citations |-> a]) :
        a \in {Absent, Present(<<>>),
               Present(<<WireCitation("https://a.test", "Example Domain", False, False, FALSE)>>)}}

VerifyPosts ==
    {Post("verify-deployment", [url |-> u, checks |-> cs]) :
        u \in PostedUrls,
        cs \in {Absent, Present(<<Check("css_loaded")>>),
                Present(<<Check("screenshot"), Check("seo")>>)}}

ScreenshotPosts ==
    {Post("screenshot", [url |-> u, viewport |-> vp, selector |-> sel, full_page |-> fp]) :
        u \in PostedUrls, vp \in {Absent, Present(MobileViewport)},
        sel \in {Undefined, "#card"}, fp \in {Undefined, True}}

RegressionPosts ==
    {Post("visual-regression",
          [url |-> u, baseline_screenshot |-> b, threshold |-> t, viewport |-> Absent]) :
        u \in PostedUrls,
        b \in {Undefined, "https://res.cloudinary.com/quest-platform/baseline.png"},
        t \in {Absent, Present(4)}}

Posts == CitationPosts \cup BatchPosts \cup VerifyPosts \cup ScreenshotPosts \cup RegressionPosts

\* What the posted URL serves, by endpoint.
SitesOf(endpoint) ==
    CASE endpoint \in {"validate-citation", "batch-validate-citations"} -> HttpSites
      [] endpoint = "verify-deployment" -> DeploymentSites
      [] OTHER -> {PlainSite}

\* The handler a request is given to.
HandlerOf(endpoint) == IF endpoint = "batch-validate-citations" THEN BatchHandler ELSE SingleHandler

----------------------------------------------------------------------------
(* The handlers on their own *)

\* One request is in the hands of its handler, which is about to run.  The
\* handlers are entered with `browser` at either value its declaration allows
\* (null, or a Browser): the order startServer imposes is not assumed here.
InitHandlers ==
    \E rq \in Posts : \E s \in SitesOf(rq.endpoint) : \E b \in {Null, Launched} :
        /\ http = [h \in Handlers |-> IF h = HandlerOf(rq.endpoint) THEN rq ELSE NoRequest]
        /\ browser = b
        /\ process = Process("listening", IF b = Null THEN "none" ELSE "running")
        /\ call = [r \in Reqs |-> NoCall]
        /\ site = [r \in Reqs |-> s]
        /\ pc = [r \in Reqs |-> "idle"]
        /\ page = [r \in Reqs |-> NoPage]
        /\ local = [r \in Reqs |-> LocalsFor(NoCall)]
        /\ completion = [r \in Reqs |-> NoCompletion]
        /\ outcome = [r \in Reqs |-> NoCompletion]
        /\ log = [r \in Reqs |-> <<>>]
        /\ rejected = [r \in Reqs |-> {}]
        /\ pages = [p \in PageIds |-> FreshPage]
        /\ batch = NoBatch
        /\ completed = <<>>

NextHandlers ==
    \/ HttpBatchValidate
    \/ BatchSettle
    \/ HttpBatchRespond
    \/ \E r \in Reqs : HttpStep(r) \/ Step(r)

SpecHandlers == InitHandlers /\ [][NextHandlers]_vars

----------------------------------------------------------------------------
(* The server process: start, health, shutdown *)

\* The state of the service calls that the process's exit leaves alone.
service == <<call, site, page, local, completion, outcome, log, rejected, pages, completed>>

\* process.exit(code), called by startServer's catch or by a signal handler:
\* no handler and no service call is resumed afterwards.
Exit(p, code, by) == [p EXCEPT !.state = "exited", !.exit = Present(code), !.by = by]

Halt ==
    /\ pc' = [r \in Reqs |-> "exited"]
    /\ batch' = [batch EXCEPT !.state = "exited"]

\* A startServer that listens before the launch has settled.
StartServerListensFirst ==
    /\ process.state = "starting"
    /\ process' = [process EXCEPT !.state = "listening"]
    /\ UNCHANGED <<service, http, pc, batch, browser>>

\* startServer (lines 219-243): chromium.launch settles.  Resolved: the
\* Browser is stored and app.listen is called.  Rejected: process.exit(1).
StartServer ==
    /\ process.state = "starting"
    /\ \/ /\ browser' = Launched
          /\ process' = [process EXCEPT !.state = "listening", !.engine = "running"]
          /\ UNCHANGED <<pc, batch>>
       \/ /\ process' = Exit(process, 1, "startServer")
          /\ Halt
          /\ UNCHANGED browser
    /\ UNCHANGED <<service, http>>

\* A handler that exits without closing the browser.
AfterSignalExitsAtOnce(b) == "exit"

\* What a signal handler does first: `if (browser) await browser.close()`.
AfterSignal(b) == IF b # Null THEN "close" ELSE "exit"

\* The SIGTERM and SIGINT handlers (lines 246-266), up to their await.  A
\* signal whose handler still awaits browser.close() is not delivered again.
SignalHandler(sig) ==
    /\ process.state # "exited"
    /\ sig \notin process.closing
    /\ IF AfterSignal(browser) = "close"
       THEN /\ process' = [process EXCEPT !.closing = @ \cup {sig}]
            /\ UNCHANGED <<pc, batch>>
       ELSE /\ process' = Exit(process, 0, sig)
            /\ Halt
    /\ UNCHANGED <<service, http, browser>>

\* browser.close() awaited by the handler of sig settles.  Resolved: the
\* engine is gone and the handler calls process.exit(0).  Rejected: the
\* handler's promise rejects, which the unhandledRejection listener of the
\* logger module logs; the process goes on, with the engine gone or not.
BrowserClose(sig) ==
    /\ process.state # "exited"
    /\ sig \in process.closing
    /\ \/ /\ process' = [Exit(process, 0, sig) EXCEPT !.closing = @ \ {sig}, !.engine = "closed"]
          /\ Halt
       \/ /\ \E e \in {process.engine, "closed"} :
                process' = [process EXCEPT !.closing = @ \ {sig}, !.engine = e]
          /\ UNCHANGED <<pc, batch>>
    /\ UNCHANGED <<service, http, browser>>

\* browser_ready of GET /health (line 44).
BrowserReady(b) == b # Null

\* GET /health (lines 39-48) is answered by a free handler.
Health(h) ==
    /\ process.state = "listening"
    /\ h \in Reqs /\ http[h] = NoRequest
    /\ http' = [http EXCEPT ![h] = [endpoint |-> "health", body |-> <<>>, code |-> 200,
                                    json |-> [status |-> "ok",
                                              browser_ready |-> BrowserReady(browser)]]]
    /\ UNCHANGED <<service, pc, batch, browser, process>>

\* A request to an operation endpoint reaches its handler; one such request
\* is served in the life of the process.
Arrive(h) ==
    /\ process.state = "listening"
    /\ \A g \in Handlers : http[g].endpoint \in {"none", "health"}
    /\ http[h] = NoRequest
    /\ \E rq \in Posts : \E s \in SitesOf(rq.endpoint) :
          /\ h = HandlerOf(rq.endpoint)
          /\ http' = [http EXCEPT ![h] = rq]
          /\ site' = [r \in Reqs |-> s]
    /\ UNCHANGED <<call, pc, page, local, completion, outcome, log, rejected, pages, batch,
                   completed, browser, process>>

\* The module has been loaded: startServer awaits the launch, nothing listens.
InitServer ==
    /\ browser = Null
    /\ process = Starting
    /\ http = NoHttp
    /\ call = [r \in Reqs |-> NoCall]
    /\ site = [r \in Reqs |-> PlainSite]
    /\ pc = [r \in Reqs |-> "idle"]
    /\ page = [r \in Reqs |-> NoPage]
    /\ local = [r \in Reqs |-> LocalsFor(NoCall)]
    /\ completion = [r \in Reqs |-> NoCompletion]
    /\ outcome = [r \in Reqs |-> NoCompletion]
    /\ log = [r \in Reqs |-> <<>>]
    /\ rejected = [r \in Reqs |-> {}]
    /\ pages = [p \in PageIds |-> FreshPage]
    /\ batch = NoBatch
    /\ completed = <<>>

NextServer ==
    \/ StartServer
    \/ \E sig \in Signals : SignalHandler(sig) \/ BrowserClose(sig)
    \/ \E h \in Handlers : Health(h) \/ Arrive(h)
    \/ HttpBatchValidate
    \/ BatchSettle
    \/ HttpBatchRespond
    \/ \E r \in Reqs : HttpStep(r) \/ Step(r)

SpecServer == InitServer /\ [][NextServer]_vars

----------------------------------------------------------------------------
(* The image load check over every min_count *)

\* Images on a page, at most.
MaxImages == 2

\* An image that loaded, one that failed with no src, one still loading.
ImageKinds ==
    {[src |-> "/logo.png", complete |-> TRUE, naturalWidth |-> 64],
     [src |-> Null, complete |-> TRUE, naturalWidth |-> 0],
     [src |-> "/hero.png", complete |-> FALSE, naturalWidth |-> 0]}

ImageSites == {[PlainSite EXCEPT !.images = imgs] : imgs \in SeqsUpTo(ImageKinds, MaxImages)}

\* images_loaded checks: min_count left out, or configured from 0 up.
ImageChecks ==
    {[Check("images_loaded") EXCEPT !.min_count = m] :
        m \in {Absent} \cup {Present(n) : n \in 0..MaxImages + 1}}

\* verify has been called with one images_loaded check and is suspended at
\* browser.newPage.
InitImages ==
    \E c \in ImageChecks : \E s \in ImageSites :
        /\ call = [r \in Reqs |-> IF r = 1 THEN [op |-> "verify", url |-> "https://a.test", checks |-> <<c>>]
                                  ELSE NoCall]
        /\ site = [r \in Reqs |-> IF r = 1 THEN s ELSE PlainSite]
        /\ pc = [r \in Reqs |-> IF r = 1 THEN "newPage" ELSE "idle"]
        /\ page = [r \in Reqs |-> NoPage]
        /\ local = [r \in Reqs |-> IF r = 1 THEN VerifyLocals ELSE LocalsFor(NoCall)]
        /\ completion = [r \in Reqs |-> NoCompletion]
        /\ outcome = [r \in Reqs |-> NoCompletion]
        /\ log = [r \in Reqs |-> IF r = 1 THEN <<"newPage">> ELSE <<>>]
        /\ rejected = [r \in Reqs |-> {}]
        /\ pages = [p \in PageIds |-> FreshPage]
        /\ batch = NoBatch
        /\ completed = <<>>
        /\ http = NoHttp
        /\ browser = Launched
        /\ process = Listening

VerifyStep(r) ==
    VerifyNewPage(r) \/ VerifyGoto(r) \/ VerifyRunCheck(r) \/ VerifyMetrics(r) \/ Close(r)

NextImages == \E r \in Reqs : VerifyStep(r)

SpecImages == InitImages /\ [][NextImages]_vars

----------------------------------------------------------------------------
(* findExpectedText, tier by tier *)

\* The three queries findExpectedText awaits, in the order of its text:
\* exactLocator.count(), partialLocator.count(), page.content().
TextTiers == <<"exact", "partial", "html">>

TierMatches(s, tier) ==
    CASE tier = "exact" -> s.exact
      [] tier = "partial" -> s.partial
      [] tier = "html" -> s.html

LocationTag(tier) ==
    CASE tier = "exact" -> "exact match"
      [] tier = "partial" -> "partial match (case-insensitive)"
      [] tier = "html" -> "found in HTML content"

TextFound(tier) == [found |-> True, location |-> LocationTag(tier)]
TextNotFound == [found |-> False, location |-> Undefined]

NextTier(tier) == IF tier = "exact" THEN "partial" ELSE "html"

\* A probe that goes on to the later tiers after a match: the last tier decides.
AfterTierKeepsLooking(s, tier) ==
    IF tier # "html" THEN [next |-> NextTier(tier), result |-> TextNotFound]
    ELSE IF \E i \in 1..Len(TextTiers) : TierMatches(s, TextTiers[i])
    THEN [next |-> "return", result |-> TextFound(tier)]
    ELSE [next |-> "return", result |-> TextNotFound]

\* The query of a tier has resolved (lines 235-259): a match returns with the
\* tier's tag, no match goes on to the next tier, and after the last to
\* `return { found: false }`.
AfterTier(s, tier) ==
    IF TierMatches(s, tier) THEN [next |-> "return", result |-> TextFound(tier)]
    ELSE IF tier = "html" THEN [next |-> "return", result |-> TextNotFound]
    ELSE [next |-> NextTier(tier), result |-> TextNotFound]

\* The awaited query of a tier settles.  Rejected: the catch block (lines
\* 260-263) returns found: false.
ProbeTier(r, tier) ==
    /\ call[r].op = "findExpectedText" /\ pc[r] = tier
    /\ \/ /\ pc' = [pc EXCEPT ![r] = "done"]
          /\ outcome' = [outcome EXCEPT ![r] = Return(TextNotFound)]
          /\ rejected' = [rejected EXCEPT ![r] = @ \cup {tier}]
          /\ UNCHANGED log
       \/ LET to == AfterTier(site[r], tier)
          IN /\ IF to.next = "return"
                THEN /\ pc' = [pc EXCEPT ![r] = "done"]
                     /\ outcome' = [outcome EXCEPT ![r] = Return(to.result)]
                     /\ UNCHANGED log
                ELSE /\ pc' = [pc EXCEPT ![r] = to.next]
                     /\ log' = [log EXCEPT ![r] = Append(@, to.next)]
                     /\ UNCHANGED outcome
             /\ UNCHANGED rejected
    /\ UNCHANGED <<call, site, page, local, completion, pages, batch, completed, http,
                   browser, process>>

\* (exact) lines 234-239.
ProbeExact(r) ==
    /\ pc[r] = "exact"
    /\ ProbeTier(r, "exact")

\* (partial) lines 241-247.
ProbePartial(r) ==
    /\ pc[r] = "partial"
    /\ ProbeTier(r, "partial")

\* (content) lines 249-259.
ProbeContent(r) ==
    /\ pc[r] = "html"
    /\ ProbeTier(r, "html")

\* findExpectedText has been called on a page and awaits its first query.
InitTextProbe ==
    \E s \in CitationSites :
        /\ call = [r \in Reqs |-> IF r = 1
                                  THEN [op |-> "findExpectedText", expectedText |-> "Example Domain"]
                                  ELSE NoCall]
        /\ site = [r \in Reqs |-> IF r = 1 THEN s ELSE PlainSite]
        /\ pc = [r \in Reqs |-> IF r = 1 THEN "exact" ELSE "idle"]
        /\ page = [r \in Reqs |-> NoPage]
        /\ local = [r \in Reqs |-> LocalsFor(NoCall)]
        /\ completion = [r \in Reqs |-> NoCompletion]
        /\ outcome = [r \in Reqs |-> NoCompletion]
        /\ log = [r \in Reqs |-> IF r = 1 THEN <<"exact">> ELSE <<>>]
        /\ rejected = [r \in Reqs |-> {}]
        /\ pages = [p \in PageIds |-> FreshPage]
        /\ batch = NoBatch
        /\ completed = <<>>
        /\ http = NoHttp
        /\ browser = Launched
        /\ process = Listening

NextTextProbe == \E r \in Reqs : ProbeExact(r) \/ ProbePartial(r) \/ ProbeContent(r)

SpecTextProbe == InitTextProbe /\ [][NextTextProbe]_vars

----------------------------------------------------------------------------
(* Observations used by the properties *)

Done(r) == pc[r] = "done"

Returned(r) == Done(r) /\ outcome[r].kind = "return"

Thrown(r) == Done(r) /\ outcome[r].kind = "throw"

Result(r) == outcome[r].value

IsValidate(r) == call[r].op = "validate"

Count(lg, step) == Cardinality({i \in 1..Len(lg) : lg[i] = step})

Issued(r, step) == Count(log[r], step) > 0

\* The HTTP status the target answers with.
Responded(r) == HttpStatus(site[r].response)

PageOps == {"validate", "verify", "visualRegression", "capture"}

----------------------------------------------------------------------------
(* Page lifecycle *)

\* C1: in validate, verify, visualRegression and capture, once newPage has
\* succeeded the page is closed exactly once before the operation completes,
\* on every exit path (return or fault); when newPage itself fails no close is
\* attempted.  A page is never closed twice, and a call that has not reached
\* its finally block has not closed its page.
PageClosedExactlyOnce ==
    \A r \in Reqs :
        /\ call[r].op \in PageOps /\ Done(r) =>
              IF page[r] # NoPage
              THEN /\ pages[page[r]].state = "closed"
                   /\ pages[page[r]].closes = 1
                   /\ Count(log[r], "close") = 1
              ELSE /\ "newPage" \in rejected[r]
                   /\ Count(log[r], "close") = 0
                   /\ \A p \in PageIds : pages[p].closes = 0
        /\ call[r].op \in PageOps /\ ~Done(r) /\ page[r] # NoPage =>
              /\ pages[page[r]].closes = 0
              /\ Count(log[r], "close") = IF pc[r] = "close" THEN 1 ELSE 0

\* A call that left by a fault after it opened its page, with the page closed.
PageClosedAfterFault ==
    \E r \in Reqs :
        /\ Thrown(r) /\ call[r].op = "verify"
        /\ "getPerformanceMetrics" \in rejected[r]
        /\ page[r] # NoPage /\ pages[page[r]].closes = 1

\* C2: under every interleaving of concurrent requests (the members of one
\* batch included) a request uses and closes only the page it opened, no page
\* is used by two requests, and when every request has completed no page is
\* open.
PageIsolation ==
    /\ \A p \in PageIds : pages[p].state # "none" => pages[p].users \subseteq {pages[p].owner}
    /\ \A r \in Reqs : page[r] # NoPage => pages[page[r]].owner = r
    /\ \A r1, r2 \in Reqs : r1 # r2 /\ page[r1] # NoPage => page[r1] # page[r2]
    /\ (\A r \in Reqs : Done(r)) => \A p \in PageIds : pages[p].state # "open"

\* Every request, two members of a running batch among them, holds an open
\* page at the same time, each page in use by its request.
PagesOpenConcurrently ==
    /\ batch.state = "running" /\ Len(batch.citations) >= 2
    /\ \A r \in Reqs : page[r] # NoPage /\ pages[page[r]].state = "open" /\ pages[page[r]].users = {r}


----------------------------------------------------------------------------
(* Citation classification *)

\* What the page holds, whatever validate goes on to probe.
CaptchaPresent(r) == CaptchaTextFrom(site[r], 1) \/ CaptchaFrameFrom(site[r], 1)
PaywallPresent(r) == \E i \in 1..Len(paywallIndicators) : paywallIndicators[i] \in site[r].text
TextPresent(r) == site[r].exact \/ site[r].partial \/ site[r].html

Probes == {"detectCaptcha", "detectPaywall", "findExpectedText", "screenshot", "cloudinary"}

\* C3: in validate, when the target responds with HTTP status >= 400 none of
\* the CAPTCHA, paywall and expected-text probes, nor the screenshot and its
\* upload, is attempted; and the result validate returns has status not_found
\* provided the read of the page title that follows the navigation did not fault.
HttpErrorIsNotFound ==
    \A r \in Reqs :
        IsValidate(r) /\ local[r].httpStatus >= 400 =>
            /\ \A step \in Probes : ~Issued(r, step)
            /\ Returned(r) /\ "title" \notin rejected[r] =>
                  /\ Result(r).status = "not_found"
                  /\ Result(r).http_status = Responded(r)

\* C3 as stated: every result for a target that responds with status >= 400
\* has status not_found.
HttpErrorIsAlwaysNotFound ==
    \A r \in Reqs :
        IsValidate(r) /\ local[r].httpStatus >= 400 /\ Returned(r) =>
            Result(r).status = "not_found"

\* A 404 page with a CAPTCHA and a paywall phrase, asked for with every option
\* on, is answered not_found.
HttpErrorSkipsProbes ==
    \E r \in Reqs :
        /\ IsValidate(r) /\ Returned(r) /\ Result(r).status = "not_found"
        /\ Responded(r) = 404 /\ CaptchaPresent(r) /\ PaywallPresent(r)
        /\ call[r].checkPaywall /\ call[r].takeScreenshot /\ Truthy(call[r].expectedText)

\* C4: in validate, when a CAPTCHA text indicator or iframe URL matches on a
\* page whose HTTP status is below 400 and no awaited call faults, the result
\* has status captcha and captcha_detected true, whatever the paywall and the
\* expected text would have given: neither is probed.
CaptchaShortCircuits ==
    \A r \in Reqs :
        IsValidate(r) /\ Returned(r) /\ CaptchaPresent(r)
        /\ Responded(r) < 400 /\ rejected[r] = {} =>
            /\ Result(r).status = "captcha"
            /\ Result(r).captcha_detected
            /\ ~Result(r).paywall_detected /\ Result(r).text_found = Null
            /\ \A step \in Probes \ {"detectCaptcha"} : ~Issued(r, step)

\* C4 as stated: every result for a page on which a CAPTCHA indicator matches
\* has status captcha.
CaptchaAlwaysWins ==
    \A r \in Reqs :
        IsValidate(r) /\ Returned(r) /\ CaptchaPresent(r) =>
            Result(r).status = "captcha" /\ Result(r).captcha_detected

\* A page with a CAPTCHA frame, a paywall phrase and without the expected text
\* is answered captcha.
CaptchaOverPaywallAndText ==
    \E r \in Reqs :
        /\ IsValidate(r) /\ Returned(r) /\ Result(r).status = "captcha"
        /\ CaptchaFrameFrom(site[r], 1) /\ PaywallPresent(r) /\ ~TextPresent(r)
        /\ call[r].checkPaywall /\ Truthy(call[r].expectedText)

\* C5: in validate with checkPaywall true, when a paywall indicator is present
\* on a page whose HTTP status is below 400 and that shows no CAPTCHA, and no
\* awaited call faults outside the text probe, the result has status paywall,
\* also when expectedText was supplied and not found.
PaywallOverridesText ==
    \A r \in Reqs :
        IsValidate(r) /\ Returned(r) /\ call[r].checkPaywall /\ PaywallPresent(r)
        /\ Responded(r) < 400 /\ ~CaptchaPresent(r)
        /\ rejected[r] \subseteq {"findExpectedText"} =>
            /\ Result(r).status = "paywall"
            /\ Result(r).paywall_detected

\* C5 as stated: every result for a page with a paywall indicator, asked for
\* with checkPaywall, has status paywall.
PaywallAlwaysWins ==
    \A r \in Reqs :
        IsValidate(r) /\ Returned(r) /\ call[r].checkPaywall /\ PaywallPresent(r) =>
            Result(r).status = "paywall"

\* A paywall result for a request whose expected text was looked for and not found.
PaywallWithTextNotFound ==
    \E r \in Reqs :
        /\ IsValidate(r) /\ Returned(r) /\ Result(r).status = "paywall"
        /\ Truthy(call[r].expectedText) /\ Issued(r, "findExpectedText")
        /\ Result(r).text_found = False


\* C6: in validate, when expectedText is supplied and is absent from the
\* rendered text and from the raw HTML, no paywall is detected, the HTTP status
\* is below 400, the page shows no CAPTCHA and no awaited call faults outside
\* the text probe, the result has status text_not_found and text_found false.
AbsentTextIsTextNotFound ==
    \A r \in Reqs :
        IsValidate(r) /\ Returned(r) /\ Truthy(call[r].expectedText) /\ ~TextPresent(r)
        /\ ~(call[r].checkPaywall /\ PaywallPresent(r))
        /\ Responded(r) < 400 /\ ~CaptchaPresent(r)
        /\ rejected[r] \subseteq {"findExpectedText"} =>
            /\ Result(r).status = "text_not_found"
            /\ Result(r).text_found = False

\* C6 as stated: every result for a request whose expected text is absent from
\* the page, with no paywall detected, has status text_not_found.
AbsentTextIsAlwaysTextNotFound ==
    \A r \in Reqs :
        IsValidate(r) /\ Returned(r) /\ Truthy(call[r].expectedText) /\ ~TextPresent(r)
        /\ ~(call[r].checkPaywall /\ PaywallPresent(r)) =>
            Result(r).status = "text_not_found"

\* The three tiers were tried without a fault on a page that lacks the text,
\* and the page has a paywall phrase that was not asked about.
TextNotFoundReturned ==
    \E r \in Reqs :
        /\ IsValidate(r) /\ Returned(r) /\ Result(r).status = "text_not_found"
        /\ ~TextPresent(r) /\ rejected[r] = {}
        /\ PaywallPresent(r) /\ ~call[r].checkPaywall

\* C7: in validate, at the final resolution (HTTP status below 400, no CAPTCHA
\* detected, no fault that ends the try block) the status is paywall if a
\* paywall was detected, else text_not_found if expectedText was supplied and
\* not found, else valid; the text counts as found exactly when it was
\* supplied, one of the three tiers matches and the probe did not fault.
FinalStatusPrecedence ==
    \A r \in Reqs :
        IsValidate(r) /\ Returned(r) /\ Responded(r) < 400 /\ ~CaptchaPresent(r)
        /\ rejected[r] \subseteq {"findExpectedText"} =>
            LET supplied == Truthy(call[r].expectedText)
                paywall == call[r].checkPaywall /\ PaywallPresent(r)
                found == supplied /\ TextPresent(r) /\ "findExpectedText" \notin rejected[r]
            IN /\ Result(r).paywall_detected = paywall
               /\ (Result(r).text_found = True) = found
               /\ Result(r).status = IF paywall THEN "paywall"
                                     ELSE IF supplied /\ ~found THEN "text_not_found"
                                     ELSE "valid"

\* A valid result for a request that asked about the paywall and supplied no
\* text, on a page with neither.
ValidWithoutExpectedText ==
    \E r \in Reqs :
        /\ IsValidate(r) /\ Returned(r) /\ Result(r).status = "valid"
        /\ call[r].checkPaywall /\ ~PaywallPresent(r)
        /\ call[r].expectedText = Undefined /\ Result(r).text_found = Null

----------------------------------------------------------------------------
(* Faults in validate *)

\* C8: a navigation failure in validate is never thrown to validate's caller:
\* validate returns a result with status error, http_status 0 and
\* error_message the failure's message.
NavigationFaultIsReturned ==
    \A r \in Reqs :
        IsValidate(r) /\ Done(r) /\ "goto" \in rejected[r] =>
            /\ Returned(r)
            /\ Result(r).status = "error"
            /\ Result(r).http_status = 0
            /\ Result(r).error_message = ErrorMessage("goto")

----------------------------------------------------------------------------
(* batchValidate *)

\* C10: the array batchValidate returns has as many results as there were
\* citations and its i-th result is the result of the i-th citation, with that
\* citation's url, in whatever order the member validations completed.
BatchResultsInInputOrder ==
    batch.state = "settled" /\ batch.outcome.kind = "return" =>
        /\ Len(batch.outcome.value) = Len(batch.citations)
        /\ \A i \in 1..Len(batch.citations) :
              /\ batch.outcome.value[i].url = batch.citations[i].url
              /\ batch.outcome.value[i] = outcome[i].value

\* A batch of two different citations returned after its second member
\* completed first.
BatchReturnedOutOfOrder ==
    /\ batch.state = "settled" /\ batch.outcome.kind = "return"
    /\ Len(batch.citations) >= 2
    /\ batch.citations[1].url # batch.citations[2].url
    /\ completed[1] = 2

\* C11: in batchValidate a failure of a member validation, at any step, the
\* release of its page included, never aborts the batch: whenever the batch
\* settles it returns one result per citation, each the member's own result.
BatchNeverAborts ==
    batch.state = "settled" =>
        /\ batch.outcome.kind = "return"
        /\ Len(batch.outcome.value) = Len(batch.citations)
        /\ \A i \in 1..Len(batch.citations) : batch.outcome.value[i] = outcome[i].value

\* C12: a citation posted to batch-validate-citations is processed as the same
\* request as when it is posted to validate-citation (takeScreenshot and
\* checkPaywall left out default to true, the expected text is honoured): for
\* the same citation and page, with no faulting step, the two responses agree
\* on status, paywall_detected, text_found and the presence of screenshot_url.
EndpointsAgree ==
    LET single == http[SingleHandler]
        many == http[BatchHandler]
    IN single.code = 200 /\ many.code = 200
       /\ rejected[1] = {} /\ rejected[SingleHandler] = {} =>
            LET one == single.json
                member == many.json.results[1]
            IN /\ one.status = member.status
               /\ one.paywall_detected = member.paywall_detected
               /\ one.text_found = member.text_found
               /\ (one.screenshot_url = Undefined) = (member.screenshot_url = Undefined)

----------------------------------------------------------------------------
(* Deployment verification *)

IsVerify(r) == call[r].op = "verify"

NavigationSucceeded(r) ==
    Issued(r, "goto") /\ pc[r] # "goto" /\ "goto" \notin rejected[r]

\* C13: after a successful navigation verify runs every check of the request
\* exactly once, in order, with no short-circuit: the results collected so far
\* are those of the first checks of the request, in order; when the loop is
\* over runCheck has been called once per requested check; and the checks of a
\* returned result have the length and, entry by entry, the types of the
\* request's checks, also when an earlier check failed.
EveryCheckRunsInOrder ==
    \A r \in Reqs :
        IsVerify(r) =>
            LET done == local[r].checkResults
                asked == call[r].checks
            IN /\ Len(done) <= Len(asked)
               /\ \A i \in 1..Len(done) : done[i].type = asked[i].type
               /\ Count(log[r], "runCheck") = Len(done) + (IF pc[r] = "runCheck" THEN 1 ELSE 0)
               /\ NavigationSucceeded(r) /\ pc[r] \notin {"runCheck"} =>
                     Count(log[r], "runCheck") = Len(asked)
               /\ Returned(r) =>
                     /\ Len(Result(r).checks) = Len(asked)
                     /\ \A i \in 1..Len(asked) : Result(r).checks[i].type = asked[i].type

\* A result whose first check failed and whose second check passed.
LaterCheckRunsAfterFailure ==
    \E r \in Reqs :
        /\ IsVerify(r) /\ Returned(r) /\ Len(Result(r).checks) >= 2
        /\ ~Result(r).checks[1].passed /\ Result(r).checks[2].passed

\* C14: the status of a verify result is passed if and only if every entry of
\* its checks array has passed = true (so no checks give passed) and failed
\* otherwise; a failing check flips the aggregate while the other checks keep
\* their own results: with no fault inside a check, each entry is what its
\* check gives on the page, whatever the other checks gave.
StatusIsConjunctionOfChecks ==
    \A r \in Reqs :
        IsVerify(r) /\ Returned(r) =>
            LET checks == Result(r).checks
            IN /\ Result(r).status \in {"passed", "failed"}
               /\ (Result(r).status = "passed") = (\A i \in 1..Len(checks) : checks[i].passed)
               /\ "runCheck" \notin rejected[r] =>
                     \A i \in 1..Len(checks) : checks[i] = runCheck(call[r].checks[i], site[r], "none")

\* A failed result whose first check passed and whose second check failed.
OneFailingCheckFlipsStatus ==
    \E r \in Reqs :
        /\ IsVerify(r) /\ Returned(r) /\ Result(r).status = "failed"
        /\ Len(Result(r).checks) >= 2
        /\ Result(r).checks[1].passed /\ ~Result(r).checks[2].passed

KnownCheckTypes ==
    {"screenshot", "css_loaded", "images_loaded", "fonts_loaded", "layout_stable", "performance"}

\* C15: a check whose type is none of the six known ones yields a check result
\* with passed = false and an explanatory message, makes the aggregate status
\* failed, and does not abort the run: the checks after it are still run and
\* the result has an entry for every requested check.
UnknownCheckFailsWithoutAbort ==
    \A r \in Reqs :
        IsVerify(r) =>
            /\ \A i \in 1..Len(local[r].checkResults) :
                  call[r].checks[i].type \notin KnownCheckTypes =>
                      /\ ~local[r].checkResults[i].passed
                      /\ Truthy(local[r].checkResults[i].message)
                      /\ local[r].checkResults[i].type = call[r].checks[i].type
                      /\ (i < Len(call[r].checks) /\ pc[r] # "runCheck" =>
                             Len(local[r].checkResults) > i)
            /\ (Returned(r)
                /\ \E i \in 1..Len(call[r].checks) : call[r].checks[i].type \notin KnownCheckTypes) =>
                  /\ Result(r).status = "failed"
                  /\ Len(Result(r).checks) = Len(call[r].checks)

\* A result whose first check is of an unknown type and whose second check
\* was run and passed.
CheckAfterUnknownTypeRuns ==
    \E r \in Reqs :
        /\ IsVerify(r) /\ Returned(r) /\ Len(Result(r).checks) >= 2
        /\ Result(r).checks[1].type \notin KnownCheckTypes
        /\ Result(r).checks[2].type \in KnownCheckTypes /\ Result(r).checks[2].passed

\* The messages of the errors the probes of the checks throw.
ProbeErrors ==
    {ErrorMessage("setViewportSize"), ErrorMessage("screenshot"), ErrorMessage("evaluate"),
     UploadError, "locator.count: failed"}

\* C16: an exception raised inside a check's probe, an upload failure inside
\* the screenshot check included, becomes that check's result with passed =
\* false and the exception's message; verify does not reject because of it,
\* and the checks before and after it are run and report their own results.
ProbeErrorBecomesFailedCheck ==
    \A r \in Reqs :
        IsVerify(r) =>
            LET done == local[r].checkResults
            IN /\ \A i \in 1..Len(done) :
                     /\ done[i].message \in ProbeErrors => ~done[i].passed
                     /\ done[i].message \notin ProbeErrors =>
                           done[i] = runCheck(call[r].checks[i], site[r], "none")
               /\ ("runCheck" \in rejected[r]) =
                     (\E i \in 1..Len(done) : done[i].message \in ProbeErrors)
               /\ Thrown(r) => rejected[r] \cap {"newPage", "goto", "getPerformanceMetrics", "close"} # {}
               /\ Returned(r) => Result(r).checks = done /\ Len(done) = Len(call[r].checks)

\* The upload inside a screenshot check failed: the check reports the failure
\* and the check after it was run and passed.
UploadErrorInsideScreenshotCheck ==
    \E r \in Reqs :
        /\ IsVerify(r) /\ Returned(r) /\ Len(Result(r).checks) >= 2
        /\ Result(r).checks[1].type = "screenshot"
        /\ ~Result(r).checks[1].passed /\ Result(r).checks[1].message = UploadError
        /\ Result(r).checks[2].passed

----------------------------------------------------------------------------
(* Navigation faults *)

\* C17: a navigation fault is folded into a returned result with status error
\* by validate, and propagates as a rejection, with no result and no check
\* run, from verify; in both cases the page has been closed.
NavigationFaultFoldedOrPropagated ==
    \A r \in Reqs :
        Done(r) /\ "goto" \in rejected[r] =>
            /\ pages[page[r]].state = "closed"
            /\ IsValidate(r) => Returned(r) /\ Result(r).status = "error"
            /\ IsVerify(r) => Thrown(r) /\ ~Issued(r, "runCheck")

----------------------------------------------------------------------------
(* Performance metrics *)

RECURSIVE MetricsCallsOfChecks(_, _)
MetricsCallsOfChecks(checks, n) ==
    IF n = 0 THEN 0 ELSE MetricsCallsInside(checks[n]) + MetricsCallsOfChecks(checks, n - 1)

\* The number of times the call has invoked getPerformanceMetrics: by verify
\* itself and inside the checks it has started.
MetricsCollected(r) ==
    Count(log[r], "getPerformanceMetrics")
    + MetricsCallsOfChecks(call[r].checks, Count(log[r], "runCheck"))

\* C18: in every verify request whose navigation succeeds verify itself
\* collects the performance metrics exactly once, after the last check,
\* whatever checks were requested, and every returned result carries them with
\* the measured load time; each performance check collects the metrics once
\* more for itself.
RequestMetricsCollectedOnce ==
    \A r \in Reqs :
        IsVerify(r) =>
            /\ Count(log[r], "getPerformanceMetrics") <= 1
            /\ Issued(r, "getPerformanceMetrics") =>
                  Len(local[r].checkResults) = Len(call[r].checks)
            /\ Done(r) /\ NavigationSucceeded(r) => Count(log[r], "getPerformanceMetrics") = 1
            /\ Returned(r) =>
                  /\ MetricsCollected(r) = 1 + MetricsCallsOfChecks(call[r].checks, Len(call[r].checks))
                  /\ Result(r).performance =
                        [load_time |-> site[r].loadTime,
                         dom_content_loaded |-> site[r].domContentLoaded,
                         first_contentful_paint |-> NumberOrElse(site[r].firstContentfulPaint, 0)]

\* C18 as stated: the metrics are collected exactly once in a request,
\* whatever checks were requested.
MetricsCollectedExactlyOnce ==
    \A r \in Reqs : IsVerify(r) /\ Returned(r) => MetricsCollected(r) = 1

\* A result of a request with a performance check: the metrics were collected
\* twice.
MetricsCollectedTwice ==
    \E r \in Reqs :
        /\ IsVerify(r) /\ Returned(r) /\ MetricsCollected(r) = 2
        /\ \E i \in 1..Len(call[r].checks) : call[r].checks[i].type = "performance"

----------------------------------------------------------------------------
(* Visual regression *)

IsRegression(r) == call[r].op = "visualRegression"

\* C19: visualRegression with no baseline supplied never invokes the image
\* comparator, and the result it returns has passed = true and
\* pixel_difference = 0 for every threshold.
NoBaselinePassesUncompared ==
    \A r \in Reqs :
        IsRegression(r) /\ ~Truthy(call[r].baselineScreenshot) =>
            /\ ~Issued(r, "compareImages")
            /\ Returned(r) =>
                  /\ Result(r).passed
                  /\ Result(r).pixel_difference = 0
                  /\ Result(r).threshold = call[r].threshold

\* A result without baseline under the strictest threshold.
NoBaselineUnderZeroThreshold ==
    \E r \in Reqs :
        /\ IsRegression(r) /\ Returned(r) /\ ~Truthy(call[r].baselineScreenshot)
        /\ call[r].threshold = 0 /\ Result(r).passed

\* C20: visualRegression with a baseline supplied returns passed = true if and
\* only if the reported pixel_difference is at most the request's threshold
\* (so pixel_difference > threshold gives passed = false), and the returned
\* threshold is the requested one.
PassedIffWithinThreshold ==
    \A r \in Reqs :
        IsRegression(r) /\ Truthy(call[r].baselineScreenshot) /\ Returned(r) =>
            /\ Result(r).passed = (Result(r).pixel_difference <= call[r].threshold)
            /\ Result(r).threshold = call[r].threshold
            /\ Issued(r, "compareImages")

\* A comparison at the boundary passes, the difference being equal to the
\* threshold.
DifferenceAtThresholdPasses ==
    \E r \in Reqs :
        /\ IsRegression(r) /\ Returned(r) /\ Truthy(call[r].baselineScreenshot)
        /\ Result(r).pixel_difference = call[r].threshold /\ Result(r).passed

----------------------------------------------------------------------------
(* The server: resource faults *)

\* The body of a request passes its endpoint's own validation.
BodyAccepted(rq) ==
    IF rq.endpoint = "batch-validate-citations" THEN rq.body.citations # Absent
    ELSE Truthy(rq.body.url)

\* C21: while the shared browser is not initialized (`browser` is null), a
\* request to any of the five operation endpoints is refused by the handler's
\* first step: the answer is an error response (the 500 of the handler with
\* the message "Browser not initialized" whenever the body itself is
\* acceptable, the 400 for a body without url or citations otherwise), no
\* service call is started, and no page is opened or navigated.
BrowserNullRefuses ==
    browser = Null =>
        /\ \A r \in Reqs : pc[r] = "idle" /\ log[r] = <<>> /\ page[r] = NoPage
        /\ \A p \in PageIds : pages[p] = FreshPage
        /\ batch.state = "none"
        /\ \A h \in Handlers :
              http[h].endpoint # "none" /\ http[h].code # 0 =>
                  IF BodyAccepted(http[h])
                  THEN /\ http[h].code = 500
                       /\ http[h].json.message = BrowserNotInitialized
                  ELSE http[h].code = 400

\* The deployment endpoint has refused an acceptable request for want of a browser.
VerifyRefusedWithoutBrowser ==
    \E h \in Handlers :
        /\ browser = Null
        /\ http[h].endpoint = "verify-deployment" /\ BodyAccepted(http[h])
        /\ http[h].code = 500
        /\ http[h].json = Failure("Deployment verification failed", BrowserNotInitialized)

----------------------------------------------------------------------------
(* The server: health and shutdown *)

\* The shared browser is initialized and usable: launched, and its engine not
\* closed by a shutdown.
BrowserUsable == browser # Null /\ process.engine = "running"

\* C22: in every state in which GET /health can be answered (the server is
\* listening and the process has not exited), the browser_ready it reports is
\* true exactly when the shared browser is launched and not closed by a
\* shutdown, and false otherwise.
HealthReportsUsableBrowser ==
    process.state = "listening" => (BrowserReady(browser) <=> BrowserUsable)

\* C23: when the process exits on a termination signal (SIGTERM or SIGINT,
\* whichever handler gets there, also with both pending) and the shared
\* browser had been launched, browser.close() has completed before the exit:
\* the process never exits on a signal with a launched browser that is not
\* closed.
ExitOnSignalAfterBrowserClosed ==
    process.state = "exited" /\ process.by \in Signals /\ browser # Null =>
        process.engine = "closed"

\* Both signals were received; the process exited from the SIGINT handler
\* with the browser closed while the SIGTERM handler was still waiting.
ExitedWithBothSignalsPending ==
    /\ process.state = "exited" /\ process.by = "SIGINT" /\ process.exit = Present(0)
    /\ "SIGTERM" \in process.closing
    /\ browser # Null /\ process.engine = "closed"

----------------------------------------------------------------------------
(* The server: responses to findings and to faults *)

\* The handler has sent its response to a request its endpoint accepts.
Answered(h) == http[h].endpoint # "none" /\ http[h].code # 0 /\ BodyAccepted(http[h])

\* The generic error of an endpoint's 500.
GenericError(endpoint) ==
    CASE endpoint = "validate-citation" -> "Citation validation failed"
      [] endpoint = "batch-validate-citations" -> "Batch citation validation failed"
      [] endpoint = "verify-deployment" -> "Deployment verification failed"
      [] endpoint = "screenshot" -> "Screenshot capture failed"
      [] endpoint = "visual-regression" -> "Visual regression test failed"

IsServerError(h) ==
    /\ http[h].code = 500
    /\ http[h].json.error = GenericError(http[h].endpoint)
    /\ Truthy(http[h].json.message)

\* The slots in which the service calls of handler h run.
SlotsOf(h) == IF h = BatchHandler THEN 1..Len(batch.citations) ELSE {h}

Surfacing(endpoint) ==
    CASE endpoint \in {"validate-citation", "batch-validate-citations"} -> {"close"}
      [] endpoint = "verify-deployment" -> {"newPage", "goto", "getPerformanceMetrics", "close"}
      [] OTHER -> {"newPage", "goto", "screenshot", "cloudinary", "close"}

----------------------------------------------------------------------------
(* validate: the order of its steps *)

\* The awaited steps of validate in the order of its text.
ValidateOrder ==
    <<"newPage", "goto", "title", "detectCaptcha", "detectPaywall", "findExpectedText",
      "screenshot", "cloudinary", "close">>

Rank(step) == CHOOSE i \in 1..Len(ValidateOrder) : ValidateOrder[i] = step

\* The step that must have been issued right before a step other than the
\* optional ones' successors.
Before(step) ==
    CASE step = "goto" -> {"newPage"}
      [] step = "title" -> {"goto"}
      [] step = "detectCaptcha" -> {"title"}
      [] step = "detectPaywall" -> {"detectCaptcha"}
      [] step = "findExpectedText" -> {"detectCaptcha", "detectPaywall"}
      [] step = "screenshot" -> {"detectCaptcha", "detectPaywall", "findExpectedText"}
      [] step = "cloudinary" -> {"screenshot"}
      [] OTHER -> {}

\* C25: in every validate call, under every interleaving with other calls,
\* the steps are issued in the fixed order open page, navigate, (title,)
\* HTTP-status check, CAPTCHA probe, paywall probe, expected-text probe,
\* screenshot, upload, status resolution, page release: no step is issued
\* twice or out of order, each is issued only when the one before has
\* settled (the call waits for nothing but the step it issued last), the
\* CAPTCHA probe follows a passed status check, and the page is released last,
\* after the status has been resolved.
ValidateStepsInOrder ==
    \A r \in Reqs :
        IsValidate(r) /\ pc[r] # "idle" =>
            /\ Len(log[r]) >= 1 /\ log[r][1] = "newPage"
            /\ \A i \in 1..Len(log[r]) : log[r][i] \in {ValidateOrder[k] : k \in 1..Len(ValidateOrder)}
            /\ \A i, j \in 1..Len(log[r]) : i < j => Rank(log[r][i]) < Rank(log[r][j])
            /\ \A i \in 2..Len(log[r]) :
                  log[r][i] # "close" => log[r][i - 1] \in Before(log[r][i])
            /\ ~Done(r) => pc[r] = log[r][Len(log[r])]
            /\ Issued(r, "detectCaptcha") => local[r].httpStatus < 400
            /\ Issued(r, "detectPaywall") => call[r].checkPaywall
            /\ Issued(r, "findExpectedText") => Truthy(call[r].expectedText)
            /\ Issued(r, "screenshot") => call[r].takeScreenshot
            /\ Issued(r, "close") =>
                  /\ log[r][Len(log[r])] = "close"
                  /\ IF Done(r) THEN outcome[r].kind # "none" ELSE completion[r].kind # "none"

\* A validate call went through every step, in order, while another validate
\* call was under way between its own steps.
AllStepsBesideAnotherCall ==
    \E r, q \in Reqs :
        /\ r # q /\ IsValidate(r) /\ IsValidate(q)
        /\ Done(r) /\ log[r] = ValidateOrder
        /\ ~Done(q) /\ Len(log[q]) >= 2

----------------------------------------------------------------------------
(* validate: termination *)

Statuses == {"valid", "not_found", "captcha", "paywall", "text_not_found", "error"}

\* C26: provided every awaited browser or upload step eventually completes or
\* fails, every validate call eventually terminates with a result whose status
\* is one of valid, not_found, captcha, paywall, text_not_found and error,
\* and once it has, its result and status never change.
ValidateTerminatesWithOneStatus ==
    /\ \A r \in Reqs :
          (IsValidate(r) /\ pc[r] # "idle") ~>
              (IsValidate(r) /\ Returned(r) /\ Result(r).status \in Statuses)
    /\ [][\A r \in Reqs :
              IsValidate(r) /\ Returned(r) => (Returned(r))' /\ outcome'[r] = outcome[r]]_vars

----------------------------------------------------------------------------
(* Deployment checks: images_loaded *)

\* The images of the page that are complete with a natural width above 0.
LoadedCount(s) ==
    Cardinality({i \in 1..Len(s.images) : s.images[i].complete /\ s.images[i].naturalWidth > 0})

\* The min_count a check is configured with; 1 only when it is left out.
ConfiguredMinCount(check) == IF check.min_count = Absent THEN 1 ELSE check.min_count[1]

\* C27: an images_loaded check that ran to its end passes exactly when the
\* number of loaded images is at least the configured min_count, where 1
\* stands in only for a min_count that is not configured; this holds for
\* every configured min_count, 0 included.
ImagesLoadedMeetsMinCount ==
    \A r \in Reqs :
        IsVerify(r) /\ Returned(r) =>
            \A i \in 1..Len(call[r].checks) :
                call[r].checks[i].type = "images_loaded" /\ Result(r).checks[i].images_found # Absent =>
                    (Result(r).checks[i].passed <=>
                        LoadedCount(site[r]) >= ConfiguredMinCount(call[r].checks[i]))

----------------------------------------------------------------------------
(* The expected-text probe *)

IsTextProbe(r) == call[r].op = "findExpectedText"

\* The tiers that match on the page, by their place in the order.
MatchingTiers(s) == {i \in 1..Len(TextTiers) : TierMatches(s, TextTiers[i])}

FirstMatchingTier(s) == CHOOSE i \in MatchingTiers(s) : \A j \in MatchingTiers(s) : i <= j

\* C28 as stated: the first tier that matches decides the result and its
\* location tag, the tiers after it are not evaluated, and found = false with
\* no location is returned only when no tier matches.
FirstMatchingTierDecides ==
    \A r \in Reqs :
        IsTextProbe(r) /\ Done(r) =>
            IF MatchingTiers(site[r]) # {}
            THEN /\ Result(r) = TextFound(TextTiers[FirstMatchingTier(site[r])])
                 /\ log[r] = SubSeq(TextTiers, 1, FirstMatchingTier(site[r]))
            ELSE Result(r) = TextNotFound /\ log[r] = TextTiers

\* C28, amended: the tiers are evaluated in the order exact, partial, HTML
\* content and none after the first that matches; when no query faults the
\* first matching tier decides, with the tag 'exact match', 'partial match
\* (case-insensitive)' or 'found in HTML content', and found = false with no
\* location is returned when no tier matches; when the query of an evaluated
\* tier faults the probe stops there and also returns found = false with no
\* location, whatever the tiers would match.
FirstMatchingTierDecidesUnlessFault ==
    \A r \in Reqs :
        IsTextProbe(r) /\ Done(r) =>
            /\ \E k \in 1..Len(TextTiers) : log[r] = SubSeq(TextTiers, 1, k)
            /\ \A i \in 1..Len(log[r]) - 1 : ~TierMatches(site[r], log[r][i])
            /\ IF rejected[r] # {}
               THEN /\ rejected[r] = {log[r][Len(log[r])]}
                    /\ Result(r) = TextNotFound
                    /\ Result(r) = findExpectedText(site[r], TRUE)
               ELSE /\ Result(r) = findExpectedText(site[r], FALSE)
                    /\ IF MatchingTiers(site[r]) # {}
                       THEN /\ Result(r) = TextFound(TextTiers[FirstMatchingTier(site[r])])
                            /\ log[r] = SubSeq(TextTiers, 1, FirstMatchingTier(site[r]))
                       ELSE Result(r) = TextNotFound /\ log[r] = TextTiers

\* The partial tier decided on a page whose HTML content matches too: the
\* third tier was not evaluated.
PartialTierDecided ==
    \E r \in Reqs :
        /\ IsTextProbe(r) /\ Done(r) /\ rejected[r] = {}
        /\ ~site[r].exact /\ site[r].partial /\ site[r].html
        /\ Result(r) = [found |-> True, location |-> "partial match (case-insensitive)"]
        /\ log[r] = <<"exact", "partial">>

----------------------------------------------------------------------------
(* validate: after a positive paywall probe *)

\* The paywall probe of the call answered detected.
PaywallProbePositive(r) == IsValidate(r) /\ local[r].paywallDetected

\* C29 as stated: after a positive paywall probe the text probe (if a text
\* was supplied) and the screenshot and its upload (if requested) are still
\* performed, and the result validate returns has status paywall together
\* with text_found and screenshot_url.
PaywallResultCarriesEvidence ==
    \A r \in Reqs :
        PaywallProbePositive(r) /\ Returned(r) =>
            /\ Truthy(call[r].expectedText) => Issued(r, "findExpectedText")
            /\ call[r].takeScreenshot => Issued(r, "screenshot") /\ Issued(r, "cloudinary")
            /\ Result(r).status = "paywall"
            /\ Truthy(call[r].expectedText) => Result(r).text_found # Null
            /\ call[r].takeScreenshot => Truthy(Result(r).screenshot_url)

\* C29, amended: a positive paywall probe does not end validate.  The text
\* probe is issued next when a text was supplied, the screenshot after it when
\* requested, and the upload once the screenshot is taken; when neither the
\* screenshot nor the upload faults, the returned result has status paywall
\* and carries text_found (non-null iff a text was supplied) and
\* screenshot_url (present iff requested); when one of them faults the
\* returned result has status error, without text_found and screenshot_url.
PaywallProbeDoesNotShortCircuit ==
    \A r \in Reqs :
        PaywallProbePositive(r) =>
            /\ Truthy(call[r].expectedText) => Issued(r, "findExpectedText")
            /\ call[r].takeScreenshot /\ pc[r] # "findExpectedText" => Issued(r, "screenshot")
            /\ Issued(r, "screenshot") /\ pc[r] # "screenshot" /\ "screenshot" \notin rejected[r] =>
                  Issued(r, "cloudinary")
            /\ Returned(r) /\ rejected[r] \subseteq {"findExpectedText"} =>
                  /\ Result(r).status = "paywall" /\ Result(r).paywall_detected
                  /\ Result(r).text_found = local[r].textFound
                  /\ Truthy(call[r].expectedText) <=> Result(r).text_found # Null
                  /\ call[r].takeScreenshot <=> Result(r).screenshot_url = SecureUrl("citations")
                  /\ ~call[r].takeScreenshot <=> Result(r).screenshot_url = Undefined
            /\ Returned(r) /\ rejected[r] \cap {"screenshot", "cloudinary"} # {} =>
                  /\ Result(r).status = "error"
                  /\ Result(r).text_found = Null /\ Result(r).screenshot_url = Undefined

\* A paywalled page that holds the expected text: the result is paywall with
\* text_found true and the uploaded screenshot's URL.
PaywallWithTextAndScreenshot ==
    \E r \in Reqs :
        /\ PaywallProbePositive(r) /\ Returned(r) /\ rejected[r] = {}
        /\ Result(r).status = "paywall"
        /\ Result(r).text_found = True
        /\ Result(r).screenshot_url = SecureUrl("citations")
        /\ log[r] = ValidateOrder

----------------------------------------------------------------------------
(* validate: after a positive CAPTCHA probe *)

\* The CAPTCHA probe of the call has answered, and answered detected.
CaptchaProbePositive(r) ==
    /\ IsValidate(r) /\ Issued(r, "detectCaptcha") /\ pc[r] # "detectCaptcha"
    /\ "detectCaptcha" \notin rejected[r]
    /\ CaptchaPresent(r)

\* C30: once the CAPTCHA probe has answered detected, validate issues no
\* paywall probe, no expected-text probe, no screenshot and no upload,
\* whatever checkPaywall, expectedText and takeScreenshot are: the only call
\* it still makes is the page's close, and the result it returns is the
\* captcha result, with no screenshot_url.
NothingAfterPositiveCaptcha ==
    \A r \in Reqs :
        CaptchaProbePositive(r) =>
            /\ \A step \in {"detectPaywall", "findExpectedText", "screenshot", "cloudinary"} :
                  ~Issued(r, step)
            /\ log[r] = <<"newPage", "goto", "title", "detectCaptcha", "close">>
            /\ Returned(r) =>
                  /\ Result(r).status = "captcha"
                  /\ Result(r).screenshot_url = Undefined

\* A CAPTCHA page asked for with every optional step: validate returned after
\* the CAPTCHA probe and the close alone.
CaptchaWithEveryFlagSet ==
    \E r \in Reqs :
        /\ CaptchaProbePositive(r) /\ Returned(r)
        /\ call[r].checkPaywall /\ call[r].takeScreenshot /\ Truthy(call[r].expectedText)
        /\ PaywallPresent(r)
        /\ log[r] = <<"newPage", "goto", "title", "detectCaptcha", "close">>

----------------------------------------------------------------------------
(* validate: coherence of the result *)

\* C31: every result validate returns agrees with its status:
\* captcha_detected iff status captcha; paywall_detected iff status paywall;
\* error_message present iff status error; with status not_found, captcha or
\* error, text_found is null and there is no screenshot_url; with status
\* text_not_found, text_found is false; with status valid, text_found is true
\* or null.
ResultCoherentWithStatus ==
    \A r \in Reqs :
        IsValidate(r) /\ Returned(r) =>
            /\ Result(r).status \in Statuses
            /\ Result(r).captcha_detected <=> Result(r).status = "captcha"
            /\ Result(r).paywall_detected <=> Result(r).status = "paywall"
            /\ Truthy(Result(r).error_message) <=> Result(r).status = "error"
            /\ Result(r).status \in {"not_found", "captcha", "error"} =>
                  Result(r).text_found = Null /\ Result(r).screenshot_url = Undefined
            /\ Result(r).status = "text_not_found" => Result(r).text_found = False
            /\ Result(r).status = "valid" => Result(r).text_found \in {True, Null}

\* An error result returned after the paywall probe had been positive and the
\* text found: none of it is in the result.
ErrorResultAfterFindings ==
    \E r \in Reqs :
        /\ IsValidate(r) /\ Returned(r) /\ Result(r).status = "error"
        /\ local[r].paywallDetected /\ local[r].textFound = True
        /\ ~Result(r).paywall_detected /\ Result(r).text_found = Null
        /\ Result(r).error_message = UploadError

----------------------------------------------------------------------------
(* validate: optional probes *)

\* C32: optional probes run only when requested.  With checkPaywall false the
\* paywall probe is never invoked, and a returned result has paywall_detected
\* false and a status other than paywall; with expectedText absent or empty
\* the text probe is never invoked, and a returned result has text_found null
\* and a status other than text_not_found; with takeScreenshot false nothing
\* is captured or uploaded, and a returned result has no screenshot_url.
OptionalProbesOnlyWhenRequested ==
    \A r \in Reqs :
        IsValidate(r) =>
            /\ ~call[r].checkPaywall =>
                /\ ~Issued(r, "detectPaywall")
                /\ Returned(r) => /\ ~Result(r).paywall_detected
                                  /\ Result(r).status # "paywall"
            /\ ~Truthy(call[r].expectedText) =>
                /\ ~Issued(r, "findExpectedText")
                /\ Returned(r) => /\ Result(r).text_found = Null
                                  /\ Result(r).status # "text_not_found"
            /\ ~call[r].takeScreenshot =>
                /\ ~Issued(r, "screenshot") /\ ~Issued(r, "cloudinary")
                /\ Returned(r) => Result(r).screenshot_url = Undefined

\* A paywalled page holding the text, validated with every option off (the
\* expected text given as the empty string): the result is valid.
PaywalledPageNothingRequested ==
    \E r \in Reqs :
        /\ IsValidate(r) /\ Returned(r)
        /\ ~call[r].checkPaywall /\ call[r].expectedText = "" /\ ~call[r].takeScreenshot
        /\ PaywallPresent(r) /\ TextPresent(r)
        /\ Issued(r, "detectCaptcha")
        /\ Result(r).status = "valid"

----------------------------------------------------------------------------
(* validate: faults *)

\* C33: validate always resolves with a result and never rejects, whichever
\* step faults: opening the page, navigation, reading the title, a probe, the
\* screenshot, the upload, or closing the page in the release step.
ValidateAlwaysResolves ==
    \A r \in Reqs :
        IsValidate(r) /\ Done(r) =>
            /\ Returned(r)
            /\ Result(r).status \in Statuses

\* C34 as stated: after a fault inside the expected-text probe validate
\* resolves to text_not_found or paywall, not to error, and no error_message
\* is recorded.
TextProbeFaultNeverError ==
    \A r \in Reqs :
        IsValidate(r) /\ Returned(r) /\ "findExpectedText" \in rejected[r] =>
            /\ Result(r).status \in {"text_not_found", "paywall"}
            /\ Result(r).error_message = Undefined

\* C34, amended: a fault inside the expected-text probe is absorbed as found =
\* false: validate goes on to the screenshot step when a screenshot is
\* requested, and every result it then returns has status text_not_found (or
\* paywall when the paywall probe was positive), text_found false and no
\* error_message, the probe's fault never being recorded, unless the
\* screenshot or the upload faults afterwards, when the result is the error
\* result of that step.
TextProbeFaultAbsorbed ==
    \A r \in Reqs :
        IsValidate(r) /\ "findExpectedText" \in rejected[r] =>
            /\ call[r].takeScreenshot => Issued(r, "screenshot")
            /\ Returned(r) =>
                 IF rejected[r] \cap {"screenshot", "cloudinary"} = {}
                 THEN /\ Result(r).status =
                            (IF local[r].paywallDetected THEN "paywall" ELSE "text_not_found")
                      /\ Result(r).text_found = False
                      /\ Result(r).text_location = Undefined
                      /\ Result(r).error_message = Undefined
                 ELSE /\ Result(r).status = "error"
                      /\ Result(r).text_found = Null
                      /\ Result(r).error_message =
                            (IF "screenshot" \in rejected[r] THEN ErrorMessage("screenshot")
                             ELSE UploadError)

\* The probe faulted on a page that holds the text and shows no paywall, the
\* screenshot was taken and uploaded, and the result is text_not_found.
TextProbeFaultThenScreenshot ==
    \E r \in Reqs :
        /\ IsValidate(r) /\ Returned(r) /\ rejected[r] = {"findExpectedText"}
        /\ TextPresent(r) /\ ~PaywallPresent(r)
        /\ Issued(r, "cloudinary")
        /\ Result(r).status = "text_not_found"
        /\ Result(r).screenshot_url # Undefined

----------------------------------------------------------------------------
(* detectPaywall *)

\* C35: the paywall probe tries the indicator phrases in list order and stops
\* at the first match.  When it detects a paywall its text is non-empty: the
\* matched element's text, or the first matching phrase when that text is
\* empty or null; when it detects none it carries no text.  So a validate
\* result has a paywall_text iff its paywall_detected is true.
PaywallTextIffDetected ==
    \A r \in Reqs :
        IsValidate(r) =>
            /\ Issued(r, "detectPaywall") /\ pc[r] # "detectPaywall"
                  /\ "detectPaywall" \notin rejected[r] =>
                 LET hits == {i \in 1..Len(paywallIndicators) :
                                  paywallIndicators[i] \in site[r].text}
                     first == CHOOSE i \in hits : \A j \in hits : i <= j
                 IN IF hits = {}
                    THEN ~local[r].paywallDetected /\ local[r].paywallText = Undefined
                    ELSE /\ local[r].paywallDetected
                         /\ Truthy(local[r].paywallText)
                         /\ local[r].paywallText =
                               (IF Truthy(site[r].elementText) THEN site[r].elementText
                                ELSE paywallIndicators[first])
            /\ Returned(r) =>
                 (Result(r).paywall_text # Undefined <=> Result(r).paywall_detected)

\* A page matching the third and the ninth phrase whose matched element has no
\* text: the result's paywall_text is the third phrase.
PaywallTextIsFirstPhrase ==
    \E r \in Reqs :
        /\ IsValidate(r) /\ Returned(r)
        /\ site[r].text = {"paywall", "unlock this article"} /\ site[r].elementText = Null
        /\ Result(r).paywall_detected
        /\ Result(r).paywall_text = "paywall"

----------------------------------------------------------------------------
(* startServer *)

\* C36: the server accepts requests only after the shared browser has been
\* launched: while it listens the browser handle is set; a process that exited
\* from startServer exited with code 1, has no browser and never received a
\* request; and every request a handler has received, answered or not, was
\* received with the browser handle set, so none is refused for a missing
\* browser.
ListensOnlyAfterLaunch ==
    /\ process.state = "listening" => browser = Launched
    /\ process.by = "startServer" =>
          /\ process.state = "exited" /\ process.exit = Present(1)
          /\ browser = Null
          /\ \A h \in Handlers : http[h] = NoRequest
    /\ \A h \in Handlers :
          http[h] # NoRequest =>
              /\ browser # Null
              /\ http[h].endpoint # "health" /\ http[h].code = 500 =>
                    http[h].json.message # BrowserNotInitialized

\* An operation request answered 200 by the listening server.
RequestServedAfterLaunch ==
    \E h \in Handlers :
        /\ http[h].endpoint \notin {"none", "health"}
        /\ Answered(h) /\ http[h].code = 200
        /\ browser = Launched /\ process.state = "listening"

----------------------------------------------------------------------------
(* verify: the page between checks *)

\* C37: checks of one verify run do not disturb the page later checks see:
\* after any check, a screenshot check with a viewport parameter included, the
\* page's viewport is still the 1920x1080 viewport the page was opened with.
ChecksKeepViewport ==
    \A r \in Reqs :
        IsVerify(r) /\ page[r] # NoPage /\ local[r].checkResults # <<>> =>
            pages[page[r]].viewport = DefaultViewport

----------------------------------------------------------------------------
(* verify: load_time *)

\* C38: the load_time in the result of a performance check equals the
\* load_time in the performance block of the verify result that holds it.
CheckLoadTimeIsVerifyLoadTime ==
    \A r \in Reqs :
        IsVerify(r) /\ Returned(r) =>
            \A i \in 1..Len(Result(r).checks) :
                LET c == Result(r).checks[i]
                IN c.type = "performance" /\ c.passed =>
                      /\ c.load_time # Absent
                      /\ c.load_time[1] = Result(r).performance.load_time

----------------------------------------------------------------------------
(* verify: faults after navigation *)

\* C39: once navigation has succeeded, verify always returns a result with
\* one entry per requested check; no fault after navigation makes it reject.
VerifyReturnsOnceNavigated ==
    \A r \in Reqs :
        IsVerify(r) /\ Done(r) /\ NavigationSucceeded(r) =>
            /\ Returned(r)
            /\ Len(Result(r).checks) = Len(call[r].checks)

\* C39, amended: once navigation has succeeded, verify returns a result with
\* one entry per requested check, in the order requested, whatever faults
\* inside the checks, unless the metrics collection that follows the checks or
\* the closing of the page faults: then verify rejects with that fault (the
\* close fault when both occur).
VerifyReturnsUnlessMetricsOrCloseFault ==
    \A r \in Reqs :
        IsVerify(r) /\ Done(r) /\ NavigationSucceeded(r) =>
            IF rejected[r] \cap {"getPerformanceMetrics", "close"} = {}
            THEN /\ Returned(r)
                 /\ Len(Result(r).checks) = Len(call[r].checks)
                 /\ \A i \in 1..Len(call[r].checks) :
                       Result(r).checks[i].type = call[r].checks[i].type
            ELSE /\ Thrown(r)
                 /\ outcome[r].error = (IF "close" \in rejected[r] THEN ErrorMessage("close")
                                        ELSE ErrorMessage("evaluate"))

\* Two checks were requested, one faulted, and the result holds two entries.
BothChecksReportedAfterFault ==
    \E r \in Reqs :
        /\ IsVerify(r) /\ Returned(r) /\ rejected[r] = {"runCheck"}
        /\ Len(call[r].checks) = 2 /\ Len(Result(r).checks) = 2
        /\ ~Result(r).checks[1].passed /\ Result(r).checks[2].passed

----------------------------------------------------------------------------
(* visualRegression: the current screenshot *)

\* C40: visualRegression captures and uploads the current screenshot before
\* it decides on the baseline, with a baseline and without: the comparator is
\* invoked, and a result returned, only after the screenshot and its upload,
\* in that order; every returned result carries current_screenshot_url; and
\* when the upload fails the call rejects, the comparator has not been
\* invoked and the page has been closed.
CurrentScreenshotBeforeBaseline ==
    \A r \in Reqs :
        IsRegression(r) =>
            /\ Issued(r, "compareImages") \/ Returned(r) =>
                  /\ Len(log[r]) >= 4
                  /\ SubSeq(log[r], 1, 4) = <<"newPage", "goto", "screenshot", "cloudinary">>
                  /\ "cloudinary" \notin rejected[r]
            /\ Returned(r) =>
                  Result(r).current_screenshot_url = SecureUrl("visual-regression")
            /\ Done(r) /\ "cloudinary" \in rejected[r] =>
                  /\ Thrown(r)
                  /\ ~Issued(r, "compareImages")
                  /\ pages[page[r]].state = "closed" /\ pages[page[r]].closes = 1

\* The upload failed with a baseline supplied: the call rejected with the
\* upload's error, uncompared, and its page is closed.
UploadFailedWithBaseline ==
    \E r \in Reqs :
        /\ IsRegression(r) /\ Thrown(r) /\ rejected[r] = {"cloudinary"}
        /\ Truthy(call[r].baselineScreenshot)
        /\ outcome[r].error = UploadError
        /\ ~Issued(r, "compareImages")
        /\ pages[page[r]].state = "closed"

============================================================================
